---- MODULE Spec2Model ----
(***************************************************************************)
(* The archive import of aiida.tools.importexport (Django backend):        *)
(* import_data_dj and its four phase functions, as a state machine over a  *)
(* relational storage.  One import run is a sequence of steps: the call    *)
(* (argument checks, target group, dangling pre-check, dependency check),  *)
(* _select_entity_data and _store_entity_data once per entity type,        *)
(* _store_node_links, _add_nodes_to_groups, and _make_import_group after   *)
(* the transaction.  An exception in any step ends the run; inside the     *)
(* transaction it restores the storage of the transaction's start.         *)
(***************************************************************************)
EXTENDS Integers, Sequences, FiniteSets, TLC

VARIABLES
    db,          \* the storage: one set of rows per table
    repo,        \* node uuids whose repository files have been copied
    pc,          \* position of the running call: "idle" between calls
    idx,         \* index into entity_order of the next phase call
    runs,        \* number of calls started
    archive,     \* the archive the reader of the current/last call exposes
    args,        \* the arguments of the current/last call
    group,       \* the target group object of the call: NoGroup or its state
    pre,         \* storage when the current/last call was entered
    txn,         \* storage when transaction.atomic() was entered
    new_entries,                  \* entity_name -> sequence of <<pk, fields>>
    existing_entries,             \* entity_name -> sequence of <<pk, fields>>
    foreign_ids_reverse_mappings, \* entity_name -> (unique id -> storage pk)
    ret_dict,                     \* entity_name -> [new, existing]; Link -> [new]
    pks_for_group,                \* node pks for the import group
    outcome,     \* "running", "ok", or the name of the exception raised
    repeat,      \* history: the call repeats the call before it, which succeeded
    import_group, \* id of the group _make_import_group returned, 0 when none
    batch_results, \* history: what the last bulk insert of the running call
                   \* leaves and reports, for every batch size
    copied       \* history: the calls of _copy_node_repositories of the
                 \* current/last call, each with the node uuids stored then

vars == <<db, repo, pc, idx, runs, archive, args, group, pre, txn, new_entries,
          existing_entries, foreign_ids_reverse_mappings, ret_dict,
          pks_for_group, outcome, repeat, import_group, batch_results,
          copied>>

(***************************************************************************)
(* Bounds of the model.                                                    *)
(***************************************************************************)
MaxRuns == 2
MaxLinks == 2
MaxBatch == 2

(***************************************************************************)
(* Program constants.                                                      *)
(***************************************************************************)
USER_ENTITY_NAME == "User"
COMPUTER_ENTITY_NAME == "Computer"
NODE_ENTITY_NAME == "Node"
GROUP_ENTITY_NAME == "Group"
LOG_ENTITY_NAME == "Log"
COMMENT_ENTITY_NAME == "Comment"

entity_order ==
    <<USER_ENTITY_NAME, COMPUTER_ENTITY_NAME, NODE_ENTITY_NAME, GROUP_ENTITY_NAME,
      LOG_ENTITY_NAME, COMMENT_ENTITY_NAME>>

\* The ceilings of the renaming loops.  The import module takes them from
\* dbimport.backends.common; the model scales them down so that the ceiling
\* is within reach of a storage of a few rows.
MAX_GROUPS == 2
MAX_COMPUTERS == 2

DUPL_SUFFIX(n) == " (Imported #" \o ToString(n) \o ")"

\* Node type names are dotted paths; a type is the sequence of its segments,
\* and the prefixes used by the link rules end at a dot.
calculation_node_types == <<"process", "calculation">>
workflow_node_types == <<"process", "workflow">>
data_node_types == <<"data">>

startswith(s, prefix) ==
    /\ Len(s) >= Len(prefix)
    /\ SubSeq(s, 1, Len(prefix)) = prefix

LinkTypes == {"call_calc", "call_work", "create", "input_calc", "input_work", "return"}

\* link type -> <<source prefix, target prefix, outdegree, indegree>>
link_mapping(t) ==
    CASE t = "call_calc"  -> <<workflow_node_types, calculation_node_types, "unique_triple", "unique">>
      [] t = "call_work"  -> <<workflow_node_types, workflow_node_types, "unique_triple", "unique">>
      [] t = "create"     -> <<calculation_node_types, data_node_types, "unique_pair", "unique">>
      [] t = "input_calc" -> <<data_node_types, calculation_node_types, "unique_triple", "unique_pair">>
      [] t = "input_work" -> <<data_node_types, workflow_node_types, "unique_triple", "unique_pair">>
      [] t = "return"     -> <<workflow_node_types, data_node_types, "unique_pair", "unique_triple">>

(***************************************************************************)
(* Generic helpers.                                                        *)
(***************************************************************************)
Range(s) == {s[i] : i \in 1..Len(s)}

RECURSIVE SetToSeqById(_)
\* the rows of S as a sequence in increasing id
SetToSeqById(S) ==
    IF S = {} THEN <<>>
    ELSE LET r == CHOOSE x \in S : \A y \in S : x.id <= y.id
         IN <<r>> \o SetToSeqById(S \ {r})

SeqsUpTo(S, n) == UNION {[1..k -> S] : k \in 0..n}

NoGroup == [state |-> "none"]
Empty == [e \in {} |-> 0]

(***************************************************************************)
(* Collaborators of the import module, from other modules of the package.  *)
(***************************************************************************)
\* aiida.common.utils.validate_uuid: whether the string is a well-formed UUID
validate_uuid(x) == x # "not-a-uuid"

\* aiida.common.links.validate_link_label: non-empty, restricted characters
validate_link_label(label) == label # "" /\ label # "a-b"

(***************************************************************************)
(* The storage.  Every table is a set of rows; a row carries the storage   *)
(* assigned id.  links are 4-tuples <<input id, output id, label, type>>,  *)
(* members are pairs <<group id, node id>>.                                *)
(***************************************************************************)
Tables == {"User", "Computer", "Node", "Group", "Log", "Comment"}

EmptyDb == [User |-> {}, Computer |-> {}, Node |-> {}, Group |-> {}, Log |-> {},
            Comment |-> {}, links |-> {}, members |-> {}]

\* bulk_create / save assign the next free id of the table
NextId(table) == Cardinality(table) + 1

\* model.objects.filter(<field>=value) / filter(<field>__in=values)
Filter(d, entity_name, field, values) == {r \in d[entity_name] : r[field] \in values}

\* A storage an earlier use of the program has left behind.
SeededDb ==
    [User |-> {[id |-> 1, email |-> "u1"]},
     Computer |-> {[id |-> 1, uuid |-> "p9", name |-> "comp (Imported #0)"]},
     Node |-> {[id |-> 1, uuid |-> "c1", node_type |-> <<"process", "calculation", "calcjob">>,
                extras |-> [a |-> 1, b |-> 2], user |-> 1],
               [id |-> 2, uuid |-> "d1", node_type |-> <<"data", "int">>,
                extras |-> Empty, user |-> 1]},
     Group |-> {[id |-> 1, uuid |-> "g9", label |-> "L (Imported #0)"]},
     Log |-> {},
     Comment |-> {[id |-> 1, uuid |-> "k1", mtime |-> 2, content |-> "stored", dbnode |-> 1]},
     \* DbLink rows are not validated on creation (line 585): the second link
     \* joins endpoints of the wrong classes for its type
     links |-> {<<1, 2, "a", "create">>, <<2, 1, "a", "create">>},
     members |-> {}]

InitStorages == {EmptyDb, SeededDb}

(***************************************************************************)
(* Archives.  An archive is what the reader exposes: entity_names, the     *)
(* records of each type as a sequence of <<archive-local pk, fields>> (the *)
(* order of iter_entity_fields), the link records, the group membership    *)
(* records and the metadata.                                               *)
(***************************************************************************)
unique_identifiers ==
    [User |-> "email", Computer |-> "uuid", Node |-> "uuid", Group |-> "uuid",
     Log |-> "uuid", Comment |-> "uuid"]

\* metadata.all_fields_info reduced to the foreign keys: type -> field -> required type
all_fields_info ==
    [User |-> Empty, Computer |-> Empty, Node |-> [user |-> "User"], Group |-> Empty,
     Log |-> [dbnode |-> "Node"], Comment |-> [dbnode |-> "Node"]]

\* entity_names lists all six types, as the readers of the package do; a
\* type without records has an empty sequence
MkArchive(users, computers, nodes, groups, logs, comments, links, group_uuids) ==
    LET ents == [User |-> users, Computer |-> computers, Node |-> nodes, Group |-> groups,
                 Log |-> logs, Comment |-> comments]
    IN [entity_names |-> Tables,
        entities |-> ents,
        links |-> links,
        group_uuids |-> group_uuids,
        unique_identifiers |-> unique_identifiers,
        all_fields_info |-> all_fields_info]

ArchUser == <<101, [email |-> "u1"]>>
ArchC1 == <<111, [uuid |-> "c1", node_type |-> <<"process", "calculation", "calcjob">>,
                  extras |-> [b |-> 3, c |-> 4], user |-> 101]>>
ArchD1 == <<112, [uuid |-> "d1", node_type |-> <<"data", "int">>, extras |-> Empty, user |-> 101]>>
ArchD2 == <<113, [uuid |-> "d2", node_type |-> <<"data", "int">>, extras |-> Empty, user |-> 101]>>
ArchW1 == <<114, [uuid |-> "w1", node_type |-> <<"process", "workflow", "workchain">>,
                  extras |-> Empty, user |-> 101]>>

Link(i, o, l, t) == [input |-> i, output |-> o, label |-> l, type |-> t]

\* Link records of the archives: well-formed ones, and one for each way a link
\* can be refused (indegree, outdegree, self-loop, unknown endpoint, label,
\* endpoint class, malformed endpoint identifier).
LinkPool ==
    {Link("c1", "d1", "a", "create"),
     Link("c1", "d1", "b", "create"),
     Link("c1", "d2", "a", "create"),
     Link("d1", "c1", "a", "input_calc"),
     Link("d2", "c1", "a", "input_calc"),
     Link("w1", "w1", "a", "call_work"),
     Link("c1", "n9", "a", "create"),
     Link("n9", "n9", "a", "create"),
     Link("c1", "d1", "a-b", "create"),
     Link("d1", "c1", "a", "create"),
     Link("not-a-uuid", "d1", "a", "create")}

\* archives that differ in their links
LinkArchives ==
    {MkArchive(<<ArchUser>>, <<>>, <<ArchC1, ArchD1, ArchD2, ArchW1>>, <<>>, <<>>, <<>>, ls, <<>>) :
        ls \in SeqsUpTo(LinkPool, MaxLinks)}

\* archives with a target group in play: one link that is accepted, dangles
\* or is refused after the entities were stored
TargetArchives ==
    {MkArchive(<<ArchUser>>, <<>>, <<ArchC1, ArchD1>>, <<>>, <<>>, <<>>, <<l>>, <<>>) :
        l \in {Link("c1", "d1", "a", "create"), Link("c1", "n9", "a", "create"),
               Link("d1", "d1", "a", "create")}}

ArchG1 == <<121, [uuid |-> "g1", label |-> "L"]>>
ArchG2 == <<122, [uuid |-> "g2", label |-> "L"]>>

\* the member sets of a membership record: none, a node of the archive, and
\* a node of the archive together with one the archive does not hold
MemberSets == {{}, {"c1"}, {"c1", "n9"}}

\* archives that differ in their groups and in the members of the first one
GroupArchives ==
    {MkArchive(<<ArchUser>>, <<>>, <<ArchC1>>, gs, <<>>, <<>>, <<>>,
               IF gs = <<>> THEN <<>> ELSE <<<<gs[1][2].uuid, ms>>>>) :
        gs \in {<<>>, <<ArchG1>>, <<ArchG2>>, <<ArchG1, ArchG2>>}, ms \in MemberSets}

ArchP1 == <<131, [uuid |-> "p1", name |-> "comp"]>>
ArchP2 == <<132, [uuid |-> "p2", name |-> "comp"]>>
ArchLog == <<141, [uuid |-> "l1", dbnode |-> 111]>>
ArchComment(mtime) ==
    <<151, [uuid |-> "k1", mtime |-> mtime, content |-> "imported", dbnode |-> 111]>>

\* archives that differ in their computers, logs and comments
EntityArchives ==
    {MkArchive(<<ArchUser>>, ps, <<ArchC1>>, <<>>, lc[1], lc[2], <<>>, <<>>) :
        ps \in {<<>>, <<ArchP1>>, <<ArchP1, ArchP2>>},
        lc \in {<<<<>>, <<>>>>, <<<<ArchLog>>, <<ArchComment(1)>>>>, <<<<>>, <<ArchComment(3)>>>>}}

ArchP9 == <<133, [uuid |-> "p9", name |-> "zeta"]>>
ArchP3 == <<134, [uuid |-> "p3", name |-> "zeta"]>>

\* an archive with two computers of one name, the first of which the seeded
\* storage holds under another name
RenameArchives ==
    {MkArchive(<<ArchUser>>, <<ArchP9, ArchP3>>, <<ArchC1>>, <<>>, <<>>, <<>>, <<>>, <<>>)}

\* an archive with records of every type, a link and a membership record
\* an archive without group records whose membership record names a group
\* of the storage: entity_count of the groups is 0 (line 673)
OrphanMembershipArchives ==
    {MkArchive(<<ArchUser>>, <<>>, <<ArchC1>>, <<>>, <<>>, <<>>, <<>>, <<<<"g9", {"c1"}>>>>)}

FullArchives ==
    {MkArchive(<<ArchUser>>, <<ArchP1>>, <<ArchC1, ArchD1>>, <<ArchG1>>, <<ArchLog>>,
               <<ArchComment(1)>>, <<Link("c1", "d1", "a", "create")>>,
               <<<<"g1", {"c1", "d1"}>>>>)}

(***************************************************************************)
(* import_data_dj up to the transaction: argument checks, the target       *)
(* group, the dangling pre-check and the dependency double-check.          *)
(***************************************************************************)
iter_node_uuids(a) == {a.entities[NODE_ENTITY_NAME][i][2].uuid : i \in 1..Len(a.entities[NODE_ENTITY_NAME])}

\* lines 139-150: the endpoint and member identifiers that are well-formed
\* UUIDs and name no node record of the archive
unknown_nodes(a) ==
    LET linked_nodes == UNION {{l.input, l.output} : l \in Range(a.links)}
        group_nodes == UNION {gu[2] : gu \in Range(a.group_uuids)}
    IN ({x \in linked_nodes : validate_uuid(x)} \cup {x \in group_nodes : validate_uuid(x)})
           \ iter_node_uuids(a)

\* the double-check with entity_order[:idx + 1]: a type may require itself
DependencyError_NotStrict(a) ==
    IF \E entity_name \in a.entity_names : entity_name \notin Range(entity_order)
    THEN "ImportValidationError"
    ELSE IF \E i \in 1..Len(entity_order) :
               \E field \in DOMAIN a.all_fields_info[entity_order[i]] :
                   a.all_fields_info[entity_order[i]][field] \notin Range(SubSeq(entity_order, 1, i))
    THEN "ArchiveImportError"
    ELSE ""

\* lines 168-184: "" when the archive passes, else the exception
DependencyError(a) ==
    IF \E entity_name \in a.entity_names : entity_name \notin Range(entity_order)
    THEN "ImportValidationError"
    ELSE IF \E i \in 1..Len(entity_order) :
               \E field \in DOMAIN a.all_fields_info[entity_order[i]] :
                   a.all_fields_info[entity_order[i]][field] \notin Range(SubSeq(entity_order, 1, i - 1))
    THEN "ArchiveImportError"
    ELSE ""

\* lines 116-120: a target group that is not stored is stored by the call
StoreGroup(d, g) ==
    IF g.state = "unstored"
    THEN [d EXCEPT !.Group = @ \cup {[id |-> NextId(d.Group), uuid |-> g.uuid, label |-> g.label]}]
    ELSE d

StoredGroup(d, g) ==
    IF g.state = "unstored" THEN [state |-> "stored", id |-> NextId(d.Group)] ELSE g

\* the run is over: the locals of the call are gone, the storage is d
Return(err, d) ==
    /\ db' = d
    /\ pc' = "idle"
    /\ idx' = 0
    /\ outcome' = err
    /\ new_entries' = Empty
    /\ existing_entries' = Empty
    /\ foreign_ids_reverse_mappings' = Empty
    /\ pks_for_group' = <<>>
    /\ batch_results' = {}

\* an exception leaves import_data_dj: nothing is returned
Raise(err, d) ==
    /\ Return(err, d)
    /\ ret_dict' = Empty

\* The target group objects a caller passes: a new unstored group, or the
\* first group of the storage.
GroupArgs(d, n) ==
    {[state |-> "unstored", uuid |-> "t" \o ToString(n), label |-> "target"]}
        \cup {[state |-> "stored", id |-> r.id] : r \in {q \in d.Group : q.id = 1}}

ImportDataDj(a, ar, g) ==
    /\ pc = "idle"
    /\ runs < MaxRuns
    /\ runs' = runs + 1
    /\ archive' = a
    /\ args' = ar
    /\ pre' = db
    /\ repeat' = (runs > 0 /\ outcome = "ok" /\ a = archive /\ ar = args /\ g = NoGroup
                     /\ group = NoGroup)
    /\ import_group' = 0
    /\ copied' = <<>>
    /\ UNCHANGED repo
    /\ IF ar.extras_mode_new \notin {"import", "none"}
       THEN /\ Raise("ImportValidationError", db)
            /\ group' = g
            /\ txn' = db
       ELSE LET d == StoreGroup(db, g) IN
            /\ group' = StoredGroup(db, g)
            /\ txn' = d
            /\ IF unknown_nodes(a) # {} /\ ~ar.ignore_unknown_nodes
               THEN Raise("DanglingLinkError", d)
               ELSE IF DependencyError(a) # ""
               THEN Raise(DependencyError(a), d)
               ELSE /\ db' = d
                    /\ pc' = "select"
                    /\ idx' = 1
                    /\ outcome' = "running"
                    /\ new_entries' = Empty
                    /\ existing_entries' = Empty
                    /\ foreign_ids_reverse_mappings' = Empty
                    /\ pks_for_group' = <<>>
                    /\ ret_dict' = Empty
                    /\ batch_results' = {}

(***************************************************************************)
(* _select_entity_data: the classification of one entity type.             *)
(***************************************************************************)
Restrict(f, S) == [k \in S |-> f[k]]

RECURSIVE GroupLabel(_, _, _, _)
\* lines 332-340: rename while a group of that label is stored
GroupLabel(d, orig_label, label, dupl_counter) ==
    IF Filter(d, GROUP_ENTITY_NAME, "label", {label}) = {}
    THEN [err |-> "", value |-> label]
    ELSE IF dupl_counter + 1 = MAX_GROUPS
    THEN [err |-> "ImportUniquenessError", value |-> orig_label \o DUPL_SUFFIX(dupl_counter)]
    ELSE GroupLabel(d, orig_label, orig_label \o DUPL_SUFFIX(dupl_counter), dupl_counter + 1)

RECURSIVE ComputerName_StorageOnly(_, _, _, _, _)
\* the renaming of a computer that looks at the stored names only
ComputerName_StorageOnly(d, imported_comp_names, orig_name, name, dupl_counter) ==
    IF Filter(d, COMPUTER_ENTITY_NAME, "name", {name}) = {}
    THEN [err |-> "", value |-> name]
    ELSE IF dupl_counter + 1 = MAX_COMPUTERS
    THEN [err |-> "ImportUniquenessError", value |-> orig_name \o DUPL_SUFFIX(dupl_counter)]
    ELSE ComputerName_StorageOnly(d, imported_comp_names, orig_name,
                                  orig_name \o DUPL_SUFFIX(dupl_counter), dupl_counter + 1)

RECURSIVE ComputerName_LateCeiling(_, _, _, _, _)
\* the renaming of a computer that gives up one rename later
ComputerName_LateCeiling(d, imported_comp_names, orig_name, name, dupl_counter) ==
    IF Filter(d, COMPUTER_ENTITY_NAME, "name", {name}) = {} /\ name \notin imported_comp_names
    THEN [err |-> "", value |-> name]
    ELSE IF dupl_counter = MAX_COMPUTERS
    THEN [err |-> "ImportUniquenessError", value |-> orig_name \o DUPL_SUFFIX(dupl_counter)]
    ELSE ComputerName_LateCeiling(d, imported_comp_names, orig_name,
                                  orig_name \o DUPL_SUFFIX(dupl_counter), dupl_counter + 1)

RECURSIVE ComputerName(_, _, _, _, _)
\* lines 344-355: rename while a computer of that name is stored or was
\* claimed by an earlier record of this archive
ComputerName(d, imported_comp_names, orig_name, name, dupl_counter) ==
    IF Filter(d, COMPUTER_ENTITY_NAME, "name", {name}) = {} /\ name \notin imported_comp_names
    THEN [err |-> "", value |-> name]
    ELSE IF dupl_counter + 1 = MAX_COMPUTERS
    THEN [err |-> "ImportUniquenessError", value |-> orig_name \o DUPL_SUFFIX(dupl_counter)]
    ELSE ComputerName(d, imported_comp_names, orig_name, orig_name \o DUPL_SUFFIX(dupl_counter),
                      dupl_counter + 1)

\* backends.common._sanitize_extras: drop the extras reserved to the engine
_sanitize_extras(fields) ==
    IF "extras" \in DOMAIN fields
    THEN [fields EXCEPT !.extras = Restrict(@, DOMAIN @ \ {"_aiida_hash"})]
    ELSE fields

\* backends.common._strip_checkpoints: process nodes lose their checkpoint
_strip_checkpoints(fields) ==
    IF "checkpoint" \in DOMAIN fields /\ startswith(fields.node_type, <<"process">>)
    THEN Restrict(fields, DOMAIN fields \ {"checkpoint"})
    ELSE fields

\* lines 303-320: unique id -> storage row, for the archive's unique ids
relevant_db_entries(d, a, entity_name) ==
    LET unique_identifier == a.unique_identifiers[entity_name]
        recs == a.entities[entity_name]
        import_unique_ids == {recs[i][2][unique_identifier] : i \in 1..Len(recs)}
    IN Filter(d, entity_name, unique_identifier, import_unique_ids)

\* a classifier that matches nothing: every record is taken as new
IsExisting_Never(unique_id, relevant) == FALSE

\* lines 359-371: the bucket of one record
IsExisting(unique_id, relevant) == unique_id \in relevant

RECURSIVE SelectLoop(_, _, _, _, _, _, _)
\* lines 326-371: the loop over the records of the type; acc is
\* [new, existing, names, err]
SelectLoop(d, a, entity_name, relevant, extras_mode_new, i, acc) ==
    LET recs == a.entities[entity_name] IN
    IF i > Len(recs) \/ acc.err # "" THEN acc
    ELSE
      LET pk == recs[i][1]
          fields0 == recs[i][2]
          unique_identifier == a.unique_identifiers[entity_name]
          renamed ==
              IF entity_name = GROUP_ENTITY_NAME
              THEN GroupLabel(d, fields0.label, fields0.label, 0)
              ELSE IF entity_name = COMPUTER_ENTITY_NAME
              THEN ComputerName(d, acc.names, fields0.name, fields0.name, 0)
              ELSE [err |-> "", value |-> ""]
          fields1 ==
              IF entity_name = GROUP_ENTITY_NAME THEN [fields0 EXCEPT !.label = renamed.value]
              ELSE IF entity_name = COMPUTER_ENTITY_NAME THEN [fields0 EXCEPT !.name = renamed.value]
              ELSE fields0
          names1 == IF entity_name = COMPUTER_ENTITY_NAME
                    THEN acc.names \cup {renamed.value} ELSE acc.names
          fields2 ==
              IF entity_name = NODE_ENTITY_NAME
              THEN LET f == _strip_checkpoints(_sanitize_extras(fields1))
                   IN IF extras_mode_new # "import"
                      THEN Restrict(f, DOMAIN f \ {"extras"}) ELSE f
              ELSE fields1
      IN IF renamed.err # "" THEN [acc EXCEPT !.err = renamed.err]
         ELSE IF IsExisting(fields1[unique_identifier], relevant)
         THEN SelectLoop(d, a, entity_name, relevant, extras_mode_new, i + 1,
                         [acc EXCEPT !.existing = Append(@, <<pk, fields1>>), !.names = names1])
         ELSE SelectLoop(d, a, entity_name, relevant, extras_mode_new, i + 1,
                         [acc EXCEPT !.new = Append(@, <<pk, fields2>>), !.names = names1])

\* a loop that hands each type to the next phase as soon as it is done
NextCall_PerType(phase, after) ==
    IF phase = "select" THEN pc' = "store" /\ idx' = idx
    ELSE IF idx < Len(entity_order) THEN pc' = "select" /\ idx' = idx + 1
    ELSE pc' = after /\ idx' = 1

\* the for loops of lines 215 and 226: the next call of the phase, or the next phase
NextCall(phase, after) ==
    IF idx < Len(entity_order)
    THEN pc' = phase /\ idx' = idx + 1
    ELSE pc' = after /\ idx' = 1

\* a classifier that takes the rows it matched out of the storage
SelectEntityData_Consuming ==
    /\ pc = "select"
    /\ UNCHANGED <<repo, copied, runs, archive, args, group, pre, txn, repeat, import_group>>
    /\ LET entity_name == entity_order[idx]
           unique_identifier == archive.unique_identifiers[entity_name]
           rows == relevant_db_entries(db, archive, entity_name)
           relevant == {r[unique_identifier] : r \in rows}
           mapping == [u \in relevant |->
                          (CHOOSE r \in rows : r[unique_identifier] = u).id]
           res == SelectLoop(db, archive, entity_name, relevant, args.extras_mode_new, 1,
                             [new |-> <<>>, existing |-> <<>>, names |-> {}, err |-> ""])
       IN IF entity_name \notin archive.entity_names
          THEN /\ NextCall("select", "store")
               /\ UNCHANGED <<db, outcome, new_entries, existing_entries,
                              foreign_ids_reverse_mappings, ret_dict, pks_for_group,
                              batch_results>>
          ELSE IF res.err # ""
          THEN Raise(res.err, txn)
          ELSE /\ NextCall("select", "store")
               /\ new_entries' = (entity_name :> res.new) @@ new_entries
               /\ existing_entries' = (entity_name :> res.existing) @@ existing_entries
               /\ foreign_ids_reverse_mappings' =
                      (entity_name :> mapping) @@ foreign_ids_reverse_mappings
               /\ db' = [db EXCEPT ![entity_name] = @ \ rows]
               /\ UNCHANGED <<outcome, ret_dict, pks_for_group, batch_results>>

SelectEntityData ==
    /\ pc = "select"
    /\ UNCHANGED <<repo, copied, runs, archive, args, group, pre, txn, repeat, import_group>>
    /\ LET entity_name == entity_order[idx]
           unique_identifier == archive.unique_identifiers[entity_name]
           rows == relevant_db_entries(db, archive, entity_name)
           relevant == {r[unique_identifier] : r \in rows}
           mapping == [u \in relevant |->
                          (CHOOSE r \in rows : r[unique_identifier] = u).id]
           res == SelectLoop(db, archive, entity_name, relevant, args.extras_mode_new, 1,
                             [new |-> <<>>, existing |-> <<>>, names |-> {}, err |-> ""])
       IN IF entity_name \notin archive.entity_names
          THEN /\ NextCall("select", "store")
               /\ UNCHANGED <<db, outcome, new_entries, existing_entries,
                              foreign_ids_reverse_mappings, ret_dict, pks_for_group,
                              batch_results>>
          ELSE IF res.err # ""
          THEN Raise(res.err, txn)
          ELSE /\ NextCall("select", "store")
               /\ new_entries' = (entity_name :> res.new) @@ new_entries
               /\ existing_entries' = (entity_name :> res.existing) @@ existing_entries
               /\ foreign_ids_reverse_mappings' =
                      (entity_name :> mapping) @@ foreign_ids_reverse_mappings
               /\ UNCHANGED <<db, outcome, ret_dict, pks_for_group, batch_results>>

(***************************************************************************)
(* Collaborators of the materializer, from dbimport.utils.                 *)
(***************************************************************************)
\* lines 188-192: entity_name -> archive-local pk -> unique id
import_unique_ids_mappings(a) ==
    [entity_name \in DOMAIN a.unique_identifiers |->
        LET recs == a.entities[entity_name]
        IN [pk \in {recs[i][1] : i \in 1..Len(recs)} |->
               (CHOOSE r \in Range(recs) : r[1] = pk)[2][a.unique_identifiers[entity_name]]]]

\* utils.deserialize_field over all fields of a record: a foreign key is
\* translated archive pk -> unique id -> storage id; a reference that does
\* not resolve is an error
Resolvable(a, entity_name, k, v, mappings) ==
    LET requires == a.all_fields_info[entity_name][k]
        ids == import_unique_ids_mappings(a)
    IN /\ requires \in DOMAIN ids
       /\ v \in DOMAIN ids[requires]
       /\ requires \in DOMAIN mappings
       /\ ids[requires][v] \in DOMAIN mappings[requires]

deserialize_fields(a, entity_name, fields, mappings) ==
    LET fk == DOMAIN fields \cap DOMAIN a.all_fields_info[entity_name]
        ids == import_unique_ids_mappings(a)
    IN IF \E k \in fk : ~Resolvable(a, entity_name, k, fields[k], mappings)
       THEN [err |-> "KeyError", data |-> fields]
       ELSE [err |-> "",
             data |-> [k \in DOMAIN fields |->
                          IF k \in fk
                          THEN mappings[a.all_fields_info[entity_name][k]]
                                       [ids[a.all_fields_info[entity_name][k]][fields[k]]]
                          ELSE fields[k]]]

ValidCommentModes == {"newest", "overwrite"}

\* utils.merge_comment on the stored comment of that uuid: the storage
\* afterwards and whether the imported comment is to be added as a new one
merge_comment(d, import_data, comment_mode) ==
    LET stored == CHOOSE r \in d.Comment : r.uuid = import_data.uuid
        replaced == (d.Comment \ {stored}) \cup
                        {[stored EXCEPT !.mtime = import_data.mtime,
                                        !.content = import_data.content]}
    IN IF comment_mode \notin ValidCommentModes
       THEN [err |-> "ImportValidationError", d |-> d, add |-> FALSE]
       ELSE IF comment_mode = "overwrite" \/ import_data.mtime > stored.mtime
       THEN [err |-> "", d |-> [d EXCEPT !.Comment = replaced], add |-> FALSE]
       ELSE IF import_data.mtime < stored.mtime
       THEN [err |-> "", d |-> d, add |-> TRUE]
       ELSE [err |-> "", d |-> d, add |-> FALSE]

\* the regenerated identifier of a redirected comment: one no row and no
\* record of the run carries
new_uuid(d, pending) == "k-new-" \o ToString(Cardinality(d.Comment) + Len(pending) + 1)

ValidExtrasMode(mode) ==
    /\ Len(mode) = 3
    /\ mode[1] \in {"k", "n"}
    /\ mode[2] \in {"c", "n"}
    /\ mode[3] \in {"l", "u", "d", "a"}

\* utils.merge_extras for a valid mode; "a" (ask) is answered by keeping
\* the stored value
merge_extras(old_extras, extras, mode) ==
    LET old_only == DOMAIN old_extras \ DOMAIN extras
        new_only == DOMAIN extras \ DOMAIN old_extras
        both == DOMAIN old_extras \cap DOMAIN extras
        keys == (IF mode[1] = "k" THEN old_only ELSE {})
                    \cup (IF mode[2] = "c" THEN new_only ELSE {})
                    \cup (IF mode[3] = "d" THEN {} ELSE both)
    IN [k \in keys |->
           IF k \in old_only THEN old_extras[k]
           ELSE IF k \in new_only THEN extras[k]
           ELSE IF mode[3] = "u" THEN extras[k] ELSE old_extras[k]]

\* the fields a model gives a row that the record does not set
ModelDefaults(entity_name) ==
    IF entity_name = NODE_ENTITY_NAME THEN [extras |-> Empty] ELSE Empty

(***************************************************************************)
(* _store_entity_data: the materialization of one entity type.             *)
(***************************************************************************)
RECURSIVE ExistingLoop_NoRedirect(_, _, _, _, _, _, _)
\* the pass over the existing entries that drops the identifier merge_comment
\* hands back instead of moving the entry into new_entries
ExistingLoop_NoRedirect(a, entity_name, entries, mappings, comment_mode, i, acc) ==
    IF i > Len(entries) \/ acc.err # "" THEN acc
    ELSE
      LET import_entry_pk == entries[i][1]
          entry_data == entries[i][2]
          unique_id == entry_data[a.unique_identifiers[entity_name]]
          existing_entry_id == mappings[entity_name][unique_id]
          des == deserialize_fields(a, entity_name, entry_data, mappings)
          merged == IF entity_name = COMMENT_ENTITY_NAME /\ des.err = ""
                    THEN merge_comment(acc.d, des.data, comment_mode)
                    ELSE [err |-> "", d |-> acc.d, add |-> FALSE]
      IN IF des.err # "" THEN [acc EXCEPT !.err = des.err]
         ELSE IF merged.err # "" THEN [acc EXCEPT !.err = merged.err]
         ELSE ExistingLoop_NoRedirect(a, entity_name, entries, mappings, comment_mode, i + 1,
                  [d |-> merged.d,
                   redirected |-> acc.redirected,
                   existing |-> Append(acc.existing, <<import_entry_pk, existing_entry_id>>),
                   err |-> ""])

RECURSIVE ExistingLoop_Overwriting(_, _, _, _, _, _, _)
\* the pass over the existing entries that writes the fields of the archive
\* record into the stored row it matched
ExistingLoop_Overwriting(a, entity_name, entries, mappings, comment_mode, i, acc) ==
    IF i > Len(entries) \/ acc.err # "" THEN acc
    ELSE
      LET import_entry_pk == entries[i][1]
          entry_data == entries[i][2]
          unique_identifier == a.unique_identifiers[entity_name]
          unique_id == entry_data[unique_identifier]
          existing_entry_id == mappings[entity_name][unique_id]
          des == deserialize_fields(a, entity_name, entry_data, mappings)
          written == [acc.d EXCEPT ![entity_name] =
                         {IF r.id = existing_entry_id
                          THEN [f \in DOMAIN r |->
                                   IF f \in DOMAIN des.data THEN des.data[f] ELSE r[f]]
                          ELSE r : r \in @}]
          merged == IF entity_name = COMMENT_ENTITY_NAME /\ des.err = ""
                    THEN merge_comment(acc.d, des.data, comment_mode)
                    ELSE [err |-> "", d |-> written, add |-> FALSE]
          new_entry == <<import_entry_pk,
                         [entry_data EXCEPT ![unique_identifier] = new_uuid(acc.d, acc.redirected)]>>
      IN IF des.err # "" THEN [acc EXCEPT !.err = des.err]
         ELSE IF merged.err # "" THEN [acc EXCEPT !.err = merged.err]
         ELSE ExistingLoop_Overwriting(a, entity_name, entries, mappings, comment_mode, i + 1,
                  [d |-> merged.d,
                   redirected |-> IF merged.add THEN Append(acc.redirected, new_entry)
                                  ELSE acc.redirected,
                   existing |-> Append(acc.existing, <<import_entry_pk, existing_entry_id>>),
                   err |-> ""])

RECURSIVE ExistingLoop_KeepsId(_, _, _, _, _, _, _)
\* the pass over the existing entries that redirects a comment under the
\* identifier it came with
ExistingLoop_KeepsId(a, entity_name, entries, mappings, comment_mode, i, acc) ==
    IF i > Len(entries) \/ acc.err # "" THEN acc
    ELSE
      LET import_entry_pk == entries[i][1]
          entry_data == entries[i][2]
          unique_identifier == a.unique_identifiers[entity_name]
          unique_id == entry_data[unique_identifier]
          existing_entry_id == mappings[entity_name][unique_id]
          des == deserialize_fields(a, entity_name, entry_data, mappings)
          merged == IF entity_name = COMMENT_ENTITY_NAME /\ des.err = ""
                    THEN merge_comment(acc.d, des.data, comment_mode)
                    ELSE [err |-> "", d |-> acc.d, add |-> FALSE]
          new_entry == <<import_entry_pk, entry_data>>
      IN IF des.err # "" THEN [acc EXCEPT !.err = des.err]
         ELSE IF merged.err # "" THEN [acc EXCEPT !.err = merged.err]
         ELSE ExistingLoop_KeepsId(a, entity_name, entries, mappings, comment_mode, i + 1,
                  [d |-> merged.d,
                   redirected |-> IF merged.add THEN Append(acc.redirected, new_entry)
                                  ELSE acc.redirected,
                   existing |-> Append(acc.existing, <<import_entry_pk, existing_entry_id>>),
                   err |-> ""])

RECURSIVE ExistingLoop(_, _, _, _, _, _, _)
\* lines 391-422: the pass over the existing entries; acc is
\* [d, redirected, existing, err]
ExistingLoop(a, entity_name, entries, mappings, comment_mode, i, acc) ==
    IF i > Len(entries) \/ acc.err # "" THEN acc
    ELSE
      LET import_entry_pk == entries[i][1]
          entry_data == entries[i][2]
          unique_identifier == a.unique_identifiers[entity_name]
          unique_id == entry_data[unique_identifier]
          existing_entry_id == mappings[entity_name][unique_id]
          des == deserialize_fields(a, entity_name, entry_data, mappings)
          merged == IF entity_name = COMMENT_ENTITY_NAME /\ des.err = ""
                    THEN merge_comment(acc.d, des.data, comment_mode)
                    ELSE [err |-> "", d |-> acc.d, add |-> FALSE]
          new_entry == <<import_entry_pk,
                         [entry_data EXCEPT ![unique_identifier] = new_uuid(acc.d, acc.redirected)]>>
      IN IF des.err # "" THEN [acc EXCEPT !.err = des.err]
         ELSE IF merged.err # "" THEN [acc EXCEPT !.err = merged.err]
         ELSE ExistingLoop(a, entity_name, entries, mappings, comment_mode, i + 1,
                  [d |-> merged.d,
                   redirected |-> IF merged.add THEN Append(acc.redirected, new_entry)
                                  ELSE acc.redirected,
                   existing |-> Append(acc.existing, <<import_entry_pk, existing_entry_id>>),
                   err |-> ""])

RECURSIVE NewLoop(_, _, _, _, _, _)
\* lines 433-446: the objects to create, in the order of new_entries; acc is
\* [objects, err], objects a sequence of <<import pk, unique id, import_data>>
NewLoop(a, entity_name, entries, mappings, i, acc) ==
    IF i > Len(entries) \/ acc.err # "" THEN acc
    ELSE
      LET des == deserialize_fields(a, entity_name, entries[i][2], mappings)
          unique_id == entries[i][2][a.unique_identifiers[entity_name]]
      IN IF des.err # "" THEN [acc EXCEPT !.err = des.err]
         ELSE NewLoop(a, entity_name, entries, mappings, i + 1,
                      [acc EXCEPT !.objects = Append(@, <<entries[i][1], unique_id, des.data>>)])

\* the pass over the matched nodes that merges and never saves
ExtrasLoop_NoSave(d, nodes, entries, mode, i) ==
    IF nodes # <<>> /\ ~ValidExtrasMode(mode)
    THEN [err |-> "ImportValidationError", d |-> d]
    ELSE [err |-> "", d |-> d]

RECURSIVE ExtrasLoop(_, _, _, _, _)
\* lines 466-482: the extras of the stored nodes matched by the archive;
\* nodes is the query result in id order
ExtrasLoop(d, nodes, entries, mode, i) ==
    IF i > Len(nodes) THEN [err |-> "", d |-> d]
    ELSE
      LET node == nodes[i]
          entry == CHOOSE e \in Range(entries) : e[2].uuid = node.uuid
          extras == IF "extras" \in DOMAIN entry[2] THEN entry[2].extras ELSE Empty
      IN IF ~ValidExtrasMode(mode) THEN [err |-> "ImportValidationError", d |-> d]
         ELSE LET new_extras == merge_extras(node.extras, extras, mode)
                  saved == (d.Node \ {node}) \cup {[node EXCEPT !.extras = new_extras]}
              IN ExtrasLoop(IF new_extras # node.extras THEN [d EXCEPT !.Node = saved] ELSE d,
                            nodes, entries, mode, i + 1)

\* line 204: db.batch_size is a configuration option; the values it takes
BatchSizes == 1..MaxBatch

RECURSIVE insert_batch(_, _, _, _)
\* one INSERT of bulk_create: one row per object, ids in the order of the batch
insert_batch(d, entity_name, batch, i) ==
    IF i > Len(batch) THEN d
    ELSE insert_batch(
             [d EXCEPT ![entity_name] =
                 @ \cup {[id |-> NextId(d[entity_name])] @@ batch[i][3] @@ ModelDefaults(entity_name)}],
             entity_name, batch, i + 1)

\* a bulk_create that stops after its first batch
bulk_create_FirstBatch(d, entity_name, objects, batch_size) ==
    LET n == IF Len(objects) < batch_size THEN Len(objects) ELSE batch_size
    IN insert_batch(d, entity_name, SubSeq(objects, 1, n), 1)

RECURSIVE bulk_create(_, _, _, _)
\* lines 491-496: bulk_create(objects_to_create, batch_size=batch_size)
\* inserts the list in batches of batch_size objects, in the order of the list
bulk_create(d, entity_name, objects, batch_size) ==
    IF objects = <<>> THEN d
    ELSE LET n == IF Len(objects) < batch_size THEN Len(objects) ELSE batch_size
         IN bulk_create(insert_batch(d, entity_name, SubSeq(objects, 1, n), 1),
                        entity_name, SubSeq(objects, n + 1, Len(objects)), batch_size)

RECURSIVE bulk_create_links(_, _, _)
\* line 661: DbLink.objects.bulk_create(links_to_store, batch_size=batch_size)
bulk_create_links(links, links_to_store, batch_size) ==
    IF links_to_store = <<>> THEN links
    ELSE LET n == IF Len(links_to_store) < batch_size THEN Len(links_to_store) ELSE batch_size
         IN bulk_create_links(links \cup Range(SubSeq(links_to_store, 1, n)),
                              SubSeq(links_to_store, n + 1, Len(links_to_store)), batch_size)

\* a query for the saved rows that finds none
just_saved_None(d, a, entity_name, objects) == <<>>

\* lines 498-503: unique id -> pk of the rows carrying the new unique ids
just_saved(d, a, entity_name, objects) ==
    LET unique_identifier == a.unique_identifiers[entity_name]
        keys == {objects[i][2] : i \in 1..Len(objects)}
        rows == Filter(d, entity_name, unique_identifier, keys)
    IN SetToSeqById({r \in rows : \A q \in rows : q[unique_identifier] = r[unique_identifier] => q.id <= r.id})

\* lines 507-512: the import pk recorded for a saved unique id
ImportPkOf(objects, unique_id) ==
    LET last == CHOOSE i \in 1..Len(objects) :
                    /\ objects[i][2] = unique_id
                    /\ \A j \in 1..Len(objects) : objects[j][2] = unique_id => j <= i
    IN objects[last][1]

\* the storage ids of the nodes the run has created only
PksForGroup_NewOnly(mappings, existing, new) ==
    IF NODE_ENTITY_NAME \in DOMAIN new
    THEN [i \in 1..Len(new[NODE_ENTITY_NAME]) |->
             mappings[NODE_ENTITY_NAME][new[NODE_ENTITY_NAME][i][2].uuid]]
    ELSE <<>>

\* lines 242-246: the storage ids of the archive's nodes, existing first
PksForGroup(mappings, existing, new) ==
    LET ids(entries) ==
            IF NODE_ENTITY_NAME \in DOMAIN entries
            THEN [i \in 1..Len(entries[NODE_ENTITY_NAME]) |->
                     mappings[NODE_ENTITY_NAME][entries[NODE_ENTITY_NAME][i][2].uuid]]
            ELSE <<>>
    IN ids(existing) \o ids(new)

\* the identifiers of every node record of the archive, matched ones included
uuids_to_create_All(objects) ==
    {objects[i][3].uuid : i \in 1..Len(objects)}
        \cup {e[2].uuid : e \in Range(existing_entries[NODE_ENTITY_NAME])}

\* line 452: the identifiers of the objects the new-entries pass has built
uuids_to_create(objects) == {objects[i][3].uuid : i \in 1..Len(objects)}

\* line 453: what the repository-copy collaborator is called with, and the
\* identifiers of the node rows the storage holds at the call
_copy_node_repositories(d, objects) ==
    [uuids_to_create |-> uuids_to_create(objects),
     visible |-> {r.uuid : r \in d.Node}]

StoreEntityData ==
    /\ pc = "store"
    /\ UNCHANGED <<runs, archive, args, group, pre, txn, repeat, import_group>>
    /\ LET entity_name == entity_order[idx]
           unique_identifier == archive.unique_identifiers[entity_name]
           maps == foreign_ids_reverse_mappings
       IN IF entity_name \notin DOMAIN existing_entries
          THEN Raise("KeyError", txn) /\ UNCHANGED <<repo, copied>>
          ELSE
          \E ex \in {ExistingLoop(archive, entity_name, existing_entries[entity_name], maps,
                                  args.comment_mode, 1,
                                  [d |-> db, redirected |-> <<>>, existing |-> <<>>,
                                   err |-> ""])} :
          \E nl \in {NewLoop(archive, entity_name, new_entries[entity_name] \o ex.redirected,
                             maps, 1, [objects |-> <<>>, err |-> ""])} :
          LET news == new_entries[entity_name] \o ex.redirected
              matched == SetToSeqById(Filter(ex.d, NODE_ENTITY_NAME, "uuid",
                             {e[2].uuid : e \in Range(existing_entries[entity_name])}))
              xl == IF entity_name = NODE_ENTITY_NAME
                    THEN ExtrasLoop(ex.d, matched, existing_entries[entity_name],
                                    args.extras_mode_existing, 1)
                    ELSE [err |-> "", d |-> ex.d]
              ret0 == IF ex.existing # <<>>
                      THEN (entity_name :> [new |-> <<>>, existing |-> ex.existing]) @@ ret_dict
                      ELSE ret_dict
              reported(d) ==
                  LET rows == just_saved(d, archive, entity_name, nl.objects)
                  IN IF rows # <<>>
                     THEN (entity_name :>
                              [new |-> [i \in 1..Len(rows) |->
                                           <<ImportPkOf(nl.objects, rows[i][unique_identifier]),
                                             rows[i].id>>],
                               existing |-> ex.existing]) @@ ret0
                     ELSE ret0
              \* lines 487-512 for every batch size: the storage and the result
              created(d1, objects) ==
                  [b \in BatchSizes |->
                      LET d == bulk_create(d1, entity_name, objects, b)
                      IN [db |-> d, ret_dict |-> reported(d)]]
          IN IF ex.err # "" THEN Raise(ex.err, txn) /\ UNCHANGED <<repo, copied>>
             ELSE IF nl.err # "" THEN Raise(nl.err, txn) /\ UNCHANGED <<repo, copied>>
             ELSE \* lines 448-453: the collaborator stages the files or raises
                  \E staged \in IF entity_name = NODE_ENTITY_NAME THEN BOOLEAN ELSE {TRUE} :
                  /\ copied' = IF entity_name = NODE_ENTITY_NAME
                               THEN Append(copied, _copy_node_repositories(ex.d, nl.objects))
                               ELSE copied
                  /\ repo' = IF entity_name = NODE_ENTITY_NAME /\ staged
                             THEN repo \cup uuids_to_create(nl.objects) ELSE repo
                  /\ IF ~staged THEN Raise("RepositoryCopyError", txn)
                     ELSE IF xl.err # "" THEN Raise(xl.err, txn)
                     ELSE \E results \in {created(xl.d, nl.objects)} :
                          \E batch_size \in BatchSizes :
                          LET d2 == results[batch_size].db
                              saved == just_saved(d2, archive, entity_name, nl.objects)
                              ret1 == results[batch_size].ret_dict
                              map1 == [u \in DOMAIN maps[entity_name]
                                               \cup {r[unique_identifier] : r \in Range(saved)} |->
                                          IF \E r \in Range(saved) : r[unique_identifier] = u
                                          THEN (CHOOSE r \in Range(saved) : r[unique_identifier] = u).id
                                          ELSE maps[entity_name][u]]
                          IN
                          /\ db' = d2
                          /\ foreign_ids_reverse_mappings' = (entity_name :> map1) @@ maps
                          /\ ret_dict' = ret1
                          /\ batch_results' = Range(results)
                          /\ NextCall("store", "links")
                          /\ IF idx < Len(entity_order)
                             THEN /\ new_entries' = (entity_name :> news) @@ new_entries
                                  /\ UNCHANGED <<existing_entries, pks_for_group>>
                             ELSE \* lines 241-250, after the last call
                                  /\ pks_for_group' =
                                         PksForGroup((entity_name :> map1) @@ maps,
                                                     existing_entries,
                                                     (entity_name :> news) @@ new_entries)
                                  /\ new_entries' = Empty
                                  /\ existing_entries' = Empty
                          /\ UNCHANGED outcome

(***************************************************************************)
(* _store_node_links: validation and insertion of the archive's links.     *)
(***************************************************************************)
\* lines 568-578: both endpoints have a storage id
Resolved(mappings, link) ==
    /\ NODE_ENTITY_NAME \in DOMAIN mappings
    /\ link.input \in DOMAIN mappings[NODE_ENTITY_NAME]
    /\ link.output \in DOMAIN mappings[NODE_ENTITY_NAME]

\* models.DbNode.objects.get(id=...)
HasNode(d, id) == \E r \in d.Node : r.id = id
GetNode(d, id) == CHOOSE r \in d.Node : r.id = id

\* lines 536-539, over the current set of existing links
existing_outgoing_unique(existing_links) == {<<l[1], l[4]>> : l \in existing_links}
existing_outgoing_unique_pair(existing_links) == {<<l[1], l[3], l[4]>> : l \in existing_links}
existing_incoming_unique(existing_links) == {<<l[2], l[4]>> : l \in existing_links}
existing_incoming_unique_pair(existing_links) == {<<l[2], l[3], l[4]>> : l \in existing_links}

\* the degree check without its indegree half
CardinalityError_OutOnly(existing_links, in_id, out_id, link) ==
    LET outdegree == link_mapping(link.type)[3]
    IN IF outdegree = "unique" /\ <<in_id, link.type>> \in existing_outgoing_unique(existing_links)
       THEN "ImportValidationError"
       ELSE IF outdegree = "unique_pair"
               /\ <<in_id, link.label, link.type>> \in existing_outgoing_unique_pair(existing_links)
       THEN "ImportValidationError"
       ELSE ""

\* lines 612-640: "" when the link respects the degree classes of its type
CardinalityError(existing_links, in_id, out_id, link) ==
    LET outdegree == link_mapping(link.type)[3]
        indegree == link_mapping(link.type)[4]
    IN IF outdegree = "unique" /\ <<in_id, link.type>> \in existing_outgoing_unique(existing_links)
       THEN "ImportValidationError"
       ELSE IF outdegree = "unique_pair"
               /\ <<in_id, link.label, link.type>> \in existing_outgoing_unique_pair(existing_links)
       THEN "ImportValidationError"
       ELSE IF indegree = "unique" /\ <<out_id, link.type>> \in existing_incoming_unique(existing_links)
       THEN "ImportValidationError"
       ELSE IF indegree = "unique_pair"
               /\ <<out_id, link.label, link.type>> \in existing_incoming_unique_pair(existing_links)
       THEN "ImportValidationError"
       ELSE ""

\* the validation without the self-loop test of line 594
ValidationError_NoSelfLoop(d, existing_links, in_id, out_id, link) ==
    LET source == GetNode(d, in_id)
        target == GetNode(d, out_id)
    IN IF ~validate_link_label(link.label) THEN "ImportValidationError"
       ELSE IF ~HasNode(d, in_id) \/ ~HasNode(d, out_id) THEN "DoesNotExist"
       ELSE IF link.type \notin LinkTypes THEN "ValueError"
       ELSE IF ~startswith(source.node_type, link_mapping(link.type)[1]) THEN "ImportValidationError"
       ELSE IF ~startswith(target.node_type, link_mapping(link.type)[2]) THEN "ImportValidationError"
       ELSE CardinalityError(existing_links, in_id, out_id, link)

\* the validation without the endpoint class tests of lines 600-610
ValidationError_NoClassCheck(d, existing_links, in_id, out_id, link) ==
    LET source == GetNode(d, in_id)
        target == GetNode(d, out_id)
    IN IF ~validate_link_label(link.label) THEN "ImportValidationError"
       ELSE IF ~HasNode(d, in_id) \/ ~HasNode(d, out_id) THEN "DoesNotExist"
       ELSE IF source.uuid = target.uuid THEN "ImportValidationError"
       ELSE IF link.type \notin LinkTypes THEN "ValueError"
       ELSE CardinalityError(existing_links, in_id, out_id, link)

\* lines 585-640: "" when the new link passes label, self-loop, endpoint
\* class and cardinality validation
ValidationError(d, existing_links, in_id, out_id, link) ==
    LET source == GetNode(d, in_id)
        target == GetNode(d, out_id)
    IN IF ~validate_link_label(link.label) THEN "ImportValidationError"
       ELSE IF ~HasNode(d, in_id) \/ ~HasNode(d, out_id) THEN "DoesNotExist"
       ELSE IF source.uuid = target.uuid THEN "ImportValidationError"
       ELSE IF link.type \notin LinkTypes THEN "ValueError"
       ELSE IF ~startswith(source.node_type, link_mapping(link.type)[1]) THEN "ImportValidationError"
       ELSE IF ~startswith(target.node_type, link_mapping(link.type)[2]) THEN "ImportValidationError"
       ELSE CardinalityError(existing_links, in_id, out_id, link)

\* the endpoints taken the wrong way round
EndpointIds_Swapped(mappings, link) ==
    <<mappings[NODE_ENTITY_NAME][link.output], mappings[NODE_ENTITY_NAME][link.input]>>

\* lines 570-571: the storage ids of the endpoints
EndpointIds(mappings, link) ==
    <<mappings[NODE_ENTITY_NAME][link.input], mappings[NODE_ENTITY_NAME][link.output]>>

RECURSIVE LinkLoop_NoIndexUpdate(_, _, _, _, _, _)
\* the loop over the link records that leaves the index sets as they were
\* loaded from storage
LinkLoop_NoIndexUpdate(d, links, mappings, ignore_unknown_nodes, i, acc) ==
    IF i > Len(links) \/ acc.err # "" THEN acc
    ELSE
      LET link == links[i] IN
      IF ~Resolved(mappings, link)
      THEN IF ignore_unknown_nodes
           THEN LinkLoop_NoIndexUpdate(d, links, mappings, ignore_unknown_nodes, i + 1, acc)
           ELSE [acc EXCEPT !.err = "ImportValidationError"]
      ELSE
        LET ids == EndpointIds(mappings, link)
            tuple == <<ids[1], ids[2], link.label, link.type>>
            err == ValidationError(d, acc.existing_links, ids[1], ids[2], link)
        IN IF tuple \in acc.existing_links
           THEN LinkLoop_NoIndexUpdate(d, links, mappings, ignore_unknown_nodes, i + 1, acc)
           ELSE IF err # "" THEN [acc EXCEPT !.err = err]
           ELSE LinkLoop_NoIndexUpdate(d, links, mappings, ignore_unknown_nodes, i + 1,
                         [existing_links |-> acc.existing_links,
                          links_to_store |-> Append(acc.links_to_store, tuple),
                          new |-> Append(acc.new, <<ids[1], ids[2]>>),
                          err |-> ""])

RECURSIVE LinkLoop_ValidateFirst(_, _, _, _, _, _)
\* the loop over the link records that validates a link before it looks
\* for its 4-tuple among the existing links
LinkLoop_ValidateFirst(d, links, mappings, ignore_unknown_nodes, i, acc) ==
    IF i > Len(links) \/ acc.err # "" THEN acc
    ELSE
      LET link == links[i] IN
      IF ~Resolved(mappings, link)
      THEN IF ignore_unknown_nodes
           THEN LinkLoop_ValidateFirst(d, links, mappings, ignore_unknown_nodes, i + 1, acc)
           ELSE [acc EXCEPT !.err = "ImportValidationError"]
      ELSE
        LET ids == EndpointIds(mappings, link)
            tuple == <<ids[1], ids[2], link.label, link.type>>
            err == ValidationError(d, acc.existing_links, ids[1], ids[2], link)
        IN IF err # "" THEN [acc EXCEPT !.err = err]
           ELSE IF tuple \in acc.existing_links
           THEN LinkLoop_ValidateFirst(d, links, mappings, ignore_unknown_nodes, i + 1, acc)
           ELSE LinkLoop_ValidateFirst(d, links, mappings, ignore_unknown_nodes, i + 1,
                         [existing_links |-> acc.existing_links \cup {tuple},
                          links_to_store |-> Append(acc.links_to_store, tuple),
                          new |-> Append(acc.new, <<ids[1], ids[2]>>),
                          err |-> ""])

RECURSIVE LinkLoop(_, _, _, _, _, _)
\* lines 563-655: the loop over the link records; acc is
\* [existing_links, links_to_store, new, err]
LinkLoop(d, links, mappings, ignore_unknown_nodes, i, acc) ==
    IF i > Len(links) \/ acc.err # "" THEN acc
    ELSE
      LET link == links[i] IN
      IF ~Resolved(mappings, link)
      THEN IF ignore_unknown_nodes
           THEN LinkLoop(d, links, mappings, ignore_unknown_nodes, i + 1, acc)
           ELSE [acc EXCEPT !.err = "ImportValidationError"]
      ELSE
        LET ids == EndpointIds(mappings, link)
            tuple == <<ids[1], ids[2], link.label, link.type>>
            err == ValidationError(d, acc.existing_links, ids[1], ids[2], link)
        IN IF tuple \in acc.existing_links
           THEN LinkLoop(d, links, mappings, ignore_unknown_nodes, i + 1, acc)
           ELSE IF err # "" THEN [acc EXCEPT !.err = err]
           ELSE LinkLoop(d, links, mappings, ignore_unknown_nodes, i + 1,
                         [existing_links |-> acc.existing_links \cup {tuple},
                          links_to_store |-> Append(acc.links_to_store, tuple),
                          new |-> Append(acc.new, <<ids[1], ids[2]>>),
                          err |-> ""])

StoreNodeLinks ==
    /\ pc = "links"
    /\ UNCHANGED <<repo, copied, runs, archive, args, group, pre, txn, repeat, import_group>>
    /\ \E res \in {LinkLoop(db, archive.links, foreign_ids_reverse_mappings,
                              args.ignore_unknown_nodes, 1,
                              [existing_links |-> db.links, links_to_store |-> <<>>,
                               new |-> <<>>, err |-> ""])} :
       LET stored(b) == [db EXCEPT !.links = bulk_create_links(@, res.links_to_store, b)]
           ret1 == IF res.new # <<>>
                   THEN ("Link" :> [new |-> res.new]) @@ ret_dict
                   ELSE ret_dict
       IN IF res.err # ""
          THEN Raise(res.err, txn)
          ELSE \E batch_size \in BatchSizes :
               /\ db' = stored(batch_size)
               /\ ret_dict' = ret1
               /\ batch_results' = {[db |-> stored(b), ret_dict |-> ret1] : b \in BatchSizes}
               /\ pc' = "groups"
               /\ UNCHANGED <<idx, outcome, new_entries, existing_entries,
                              foreign_ids_reverse_mappings, pks_for_group>>

(***************************************************************************)
(* _add_nodes_to_groups: the membership records of the archive.            *)
(***************************************************************************)
RECURSIVE GroupLoop(_, _, _, _)
\* lines 679-691: acc is [d, err]
GroupLoop(group_uuids, mappings, i, acc) ==
    IF i > Len(group_uuids) \/ acc.err # "" THEN acc
    ELSE
      LET groupuuid == group_uuids[i][1]
          groupnodes == group_uuids[i][2]
          found == Filter(acc.d, GROUP_ENTITY_NAME, "uuid", {groupuuid})
      IN IF groupnodes = {} THEN GroupLoop(group_uuids, mappings, i + 1, acc)
         ELSE IF found = {} THEN [acc EXCEPT !.err = "DoesNotExist"]
         ELSE IF \/ NODE_ENTITY_NAME \notin DOMAIN mappings
                 \/ \E node_uuid \in groupnodes : node_uuid \notin DOMAIN mappings[NODE_ENTITY_NAME]
         THEN [acc EXCEPT !.err = "KeyError"]
         ELSE LET group_ == CHOOSE r \in found : TRUE
                  nodes_to_store == {mappings[NODE_ENTITY_NAME][u] : u \in groupnodes}
              IN GroupLoop(group_uuids, mappings, i + 1,
                           [acc EXCEPT !.d.members = @ \cup {<<group_.id, n>> : n \in nodes_to_store}])

\* reader.entity_count
entity_count(a, entity_name) == Len(a.entities[entity_name])

AddNodesToGroups ==
    /\ pc = "groups"
    /\ UNCHANGED <<repo, copied, runs, archive, args, group, pre, txn, repeat, import_group>>
    /\ LET res == IF entity_count(archive, GROUP_ENTITY_NAME) = 0
                  THEN [d |-> db, err |-> ""]
                  ELSE GroupLoop(archive.group_uuids, foreign_ids_reverse_mappings, 1,
                                 [d |-> db, err |-> ""])
       IN IF res.err # ""
          THEN Raise(res.err, txn)
          ELSE \* the transaction commits when the with block is left
               /\ db' = res.d
               /\ pc' = "import_group"
               /\ UNCHANGED <<idx, outcome, new_entries, existing_entries,
                              foreign_ids_reverse_mappings, ret_dict, pks_for_group,
                              batch_results>>

(***************************************************************************)
(* _make_import_group, in its own transaction after the commit, and the    *)
(* return of import_data_dj.                                               *)
(***************************************************************************)
\* backends.common._make_import_group: the target group, or a new group
\* under a label no stored group has, receives the nodes of the run
_make_import_group(d, g, node_pks) ==
    LET id == IF g.state = "stored" THEN g.id ELSE NextId(d.Group)
        d1 == IF g.state = "stored" THEN d
              ELSE [d EXCEPT !.Group = @ \cup
                       {[id |-> id, uuid |-> "i" \o ToString(id), label |-> "import-" \o ToString(id)]}]
    IN [d1 EXCEPT !.members = @ \cup {<<id, n>> : n \in Range(node_pks)}]

\* the group _make_import_group returns
ImportGroupId(d, g) == IF g.state = "stored" THEN g.id ELSE NextId(d.Group)

\* the transaction that began with storage t has committed d; the call that
\* follows has failed and undone its own writes, and nothing but them
AfterImportGroupFailure_RolledBack(d, t) == t

\* lines 206-273: _make_import_group is called after the with-block of
\* transaction.atomic() has been left: the transaction that began with
\* storage t has committed d, and an exception of the call, which runs in a
\* transaction of its own, leaves d
AfterImportGroupFailure(d, t) == d

\* line 273 and the return of ret_dict at line 278; the call may fail (the
\* storage refusing the group or the attachment), and the exception leaves
\* import_data_dj
MakeImportGroup ==
    /\ pc = "import_group"
    /\ UNCHANGED <<repo, copied, runs, archive, args, group, pre, txn, repeat>>
    /\ \/ /\ Return("ok", _make_import_group(db, group, pks_for_group))
          /\ import_group' = ImportGroupId(db, group)
          /\ UNCHANGED ret_dict
       \/ /\ Raise("ImportGroupFailure", AfterImportGroupFailure(db, txn))
          /\ UNCHANGED import_group

(***************************************************************************)
(* The calls offered to the program.                                       *)
(***************************************************************************)
Args(ignore, eme, emn, cm) ==
    [ignore_unknown_nodes |-> ignore, extras_mode_existing |-> eme,
     extras_mode_new |-> emn, comment_mode |-> cm]

DefaultArgs == Args(FALSE, <<"k", "c", "l">>, "import", "newest")

NoArchive == MkArchive(<<>>, <<>>, <<>>, <<>>, <<>>, <<>>, <<>>, <<>>)

\* an archive whose entity_names leaves out the types it has no record of
PartialArchives ==
    {[a EXCEPT !.entity_names = {e \in Tables : a.entities[e] # <<>>}] :
        a \in {MkArchive(<<ArchUser>>, <<>>, <<ArchC1>>, <<>>, <<>>, <<>>, <<>>, <<>>)}}

\* archives whose metadata the dependency double-check refuses: an entity
\* type outside entity_order, a type that requires a later type, a type that
\* requires itself
MetadataArchives ==
    LET a == MkArchive(<<ArchUser>>, <<>>, <<ArchC1>>, <<>>, <<>>, <<>>, <<>>, <<>>)
    IN {[a EXCEPT !.entity_names = Tables \cup {"AuthInfo"}],
        [a EXCEPT !.all_fields_info.User = [dbnode |-> "Node"]],
        [a EXCEPT !.all_fields_info.Node = [user |-> "User", parent |-> "Node"]]}

\* the argument tuples that differ from the default in one policy argument
PolicyArgs ==
    {DefaultArgs}
        \cup {Args(FALSE, eme, "import", "newest") : eme \in {<<"n", "c", "u">>, <<"k", "c">>}}
        \cup {Args(FALSE, <<"k", "c", "l">>, emn, "newest") : emn \in {"none", "ask"}}
        \cup {Args(FALSE, <<"k", "c", "l">>, "import", cm) : cm \in {"overwrite", "latest"}}

\* the sixteen three-letter codes of extras_mode_existing
ExtrasModes ==
    {<<l1, l2, l3>> : l1 \in {"k", "n"}, l2 \in {"c", "n"}, l3 \in {"l", "u", "d", "a"}}

\* <<archive, args, whether a target group is passed>>
Inputs ==
    {<<a, Args(ignore, <<"k", "c", "l">>, "import", "newest"), FALSE>> :
        a \in LinkArchives \cup GroupArchives, ignore \in BOOLEAN}
    \cup {<<a, Args(ignore, <<"k", "c", "l">>, "import", "newest"), TRUE>> :
        a \in TargetArchives, ignore \in BOOLEAN}
    \cup {<<a, ar, FALSE>> : a \in EntityArchives, ar \in PolicyArgs}
    \cup {<<a, DefaultArgs, FALSE>> : a \in PartialArchives}
    \cup {<<MkArchive(<<ArchUser>>, <<>>, <<ArchC1>>, <<>>, <<>>, <<>>, <<>>, <<>>),
            Args(FALSE, mode, "import", "newest"), FALSE>> : mode \in ExtrasModes}
    \cup {<<a, DefaultArgs, target>> : a \in MetadataArchives, target \in BOOLEAN}
    \cup {<<a, DefaultArgs, FALSE>> :
               a \in FullArchives \cup RenameArchives \cup OrphanMembershipArchives}

Init ==
    /\ db \in InitStorages
    /\ repo = {}
    /\ copied = <<>>
    /\ pc = "idle"
    /\ idx = 0
    /\ runs = 0
    /\ archive = NoArchive
    /\ args = DefaultArgs
    /\ group = NoGroup
    /\ pre = db
    /\ txn = db
    /\ new_entries = Empty
    /\ existing_entries = Empty
    /\ foreign_ids_reverse_mappings = Empty
    /\ ret_dict = Empty
    /\ pks_for_group = <<>>
    /\ outcome = "ok"
    /\ repeat = FALSE
    /\ import_group = 0
    /\ batch_results = {}

Call ==
    \E in \in Inputs :
        \E g \in IF in[3] THEN GroupArgs(db, runs) ELSE {NoGroup} :
            ImportDataDj(in[1], in[2], g)

Next ==
    \/ Call
    \/ SelectEntityData
    \/ StoreEntityData
    \/ StoreNodeLinks
    \/ AddNodesToGroups
    \/ MakeImportGroup

Spec == Init /\ [][Next]_vars

(***************************************************************************)
(* Properties.                                                             *)
(***************************************************************************)
Done == pc = "idle" /\ runs > 0
Succeeded == Done /\ outcome = "ok"

ValidArgs(ar) ==
    /\ ValidExtrasMode(ar.extras_mode_existing)
    /\ ar.extras_mode_new \in {"import", "none"}
    /\ ar.comment_mode \in ValidCommentModes

\* the link records with an endpoint that names no node record of the archive
DanglingLinks(a) ==
    {l \in Range(a.links) : l.input \notin iter_node_uuids(a) \/ l.output \notin iter_node_uuids(a)}

\* the membership records with a member that names no node record of the archive
DanglingMemberships(a) ==
    {gu \in Range(a.group_uuids) : gu[2] \ iter_node_uuids(a) # {}}

UniqueIds(d, entity_name) == {r[unique_identifiers[entity_name]] : r \in d[entity_name]}

\* C1: when _store_node_links or _add_nodes_to_groups raises after entities
\* were materialized, the storage the call leaves is the storage it found.
C1_Atomicity ==
    [][(pc \in {"links", "groups"} /\ pc' = "idle" /\ (\E e \in Tables : db[e] # txn[e]))
          => db' = pre]_vars

\* C2: a call that repeats the successful call before it (same archive, same
\* arguments, same storage) succeeds, reports nothing new and reports every
\* record of the archive as existing.  Stated for archives without comments.
C2_Idempotence ==
    (Done /\ repeat /\ archive.entities[COMMENT_ENTITY_NAME] = <<>>
          /\ outcome # "ImportGroupFailure") =>
        /\ outcome = "ok"
        /\ \A k \in DOMAIN ret_dict : ret_dict[k].new = <<>>
        /\ \A e \in Tables :
               archive.entities[e] # <<>> =>
                   /\ e \in DOMAIN ret_dict
                   /\ {r[1] : r \in Range(archive.entities[e])}
                          = {x[1] : x \in Range(ret_dict[e].existing)}

\* C3: an archive with a link whose endpoint is no node of the archive is
\* refused with DanglingLinkError and nothing written when
\* ignore_unknown_nodes is false; when it is true and such links are the only
\* links, the import completes and stores and reports no link.
C3_DanglingRejection ==
    (Done /\ DanglingLinks(archive) # {} /\ ValidArgs(args) /\ outcome # "ImportGroupFailure") =>
        IF ~args.ignore_unknown_nodes
        THEN outcome = "DanglingLinkError" /\ db = pre
        ELSE (Range(archive.links) = DanglingLinks(archive)) =>
                 /\ outcome = "ok"
                 /\ db.links = pre.links
                 /\ "Link" \notin DOMAIN ret_dict

\* C4: after a successful import of an archive with two groups of the same
\* label, neither stored before, the two are stored under different labels.
C4_NameDisambiguation ==
    Succeeded =>
        \A g1, g2 \in Range(archive.entities[GROUP_ENTITY_NAME]) :
            (/\ g1 # g2
             /\ g1[2].label = g2[2].label
             /\ g1[2].uuid \notin UniqueIds(pre, GROUP_ENTITY_NAME)
             /\ g2[2].uuid \notin UniqueIds(pre, GROUP_ENTITY_NAME)) =>
                \A r1, r2 \in db.Group :
                    (r1.uuid = g1[2].uuid /\ r2.uuid = g2[2].uuid) => r1.label # r2.label

\* C5: with ignore_unknown_nodes a membership record naming a node the
\* archive does not hold does not abort the run: the import completes and
\* the members the archive holds are attached.  Stated for archives without
\* links, imported into a storage without groups.
C5_UnknownMemberDropped ==
    (/\ Done
     /\ args.ignore_unknown_nodes
     /\ DanglingMemberships(archive) # {}
     /\ archive.links = <<>>
     /\ pre.Group = {}
     /\ outcome # "ImportGroupFailure") =>
        /\ outcome = "ok"
        /\ \A gu \in Range(archive.group_uuids) :
               \A m \in gu[2] \cap iter_node_uuids(archive) :
                   \E g \in db.Group, n \in db.Node :
                       g.uuid = gu[1] /\ n.uuid = m /\ <<g.id, n.id>> \in db.members

\* C6: a call with an invalid extras_mode_existing, extras_mode_new or
\* comment_mode ends in a validation error and leaves the storage alone.
C6_ValidationFirst ==
    (Done /\ ~ValidArgs(args)) => (outcome = "ImportValidationError" /\ db = pre)

\* the degree classes of link_mapping hold of a set of stored links
CardinalityRule(links) ==
    \A l1, l2 \in links :
        (l1 # l2 /\ l1[4] = l2[4] /\ l1[4] \in LinkTypes) =>
            LET outdegree == link_mapping(l1[4])[3]
                indegree == link_mapping(l1[4])[4]
            IN /\ outdegree = "unique" => l1[1] # l2[1]
               /\ outdegree = "unique_pair" => ~(l1[1] = l2[1] /\ l1[3] = l2[3])
               /\ indegree = "unique" => l1[2] # l2[2]
               /\ indegree = "unique_pair" => ~(l1[2] = l2[2] /\ l1[3] = l2[3])

\* C7: after a successful import into a storage whose links respect the
\* degree classes of their types, the links of the storage respect them.
C7_Cardinality ==
    (Succeeded /\ CardinalityRule(pre.links)) => CardinalityRule(db.links)

\* a successful import added a link of a type with indegree `unique` to a
\* storage that held a link of that type
C7_Witness ==
    /\ Succeeded
    /\ \E l \in db.links \ pre.links :
           /\ link_mapping(l[4])[4] = "unique"
           /\ \E k \in pre.links : k[4] = l[4]

\* C8: every link a successful run has written joins two node rows of the
\* storage, and they are the rows of the endpoint UUIDs of a link record of
\* the archive with that label and type.
C8_ReferentialClosure ==
    Succeeded =>
        \A t \in db.links \ pre.links :
            \E source, target \in db.Node :
                /\ source.id = t[1]
                /\ target.id = t[2]
                /\ \E l \in Range(archive.links) :
                       /\ l.input = source.uuid
                       /\ l.output = target.uuid
                       /\ l.label = t[3]
                       /\ l.type = t[4]

\* a successful import wrote a link with an endpoint it had just created
C8_Witness ==
    /\ Succeeded
    /\ \E t \in db.links \ pre.links :
           \E n \in db.Node \ pre.Node : n.id = t[1] \/ n.id = t[2]

\* C9: no table of the storage ever holds two rows with the same unique
\* identifier.
C9_Uniqueness ==
    \A e \in Tables :
        \A r1, r2 \in db[e] :
            r1[unique_identifiers[e]] = r2[unique_identifiers[e]] => r1 = r2

\* a second import has found records of the archive in the storage and has
\* created others
C9_Witness ==
    /\ Succeeded
    /\ runs = 2
    /\ \E e \in DOMAIN ret_dict \cap Tables : ret_dict[e].existing # <<>>
    /\ \E e \in DOMAIN ret_dict \cap Tables : ret_dict[e].new # <<>>

C11_NoPartialSuccess ==
    (Done /\ outcome \notin {"ok", "ImportGroupFailure"}) => db = pre

\* the position of an entity type in the import order
Position(entity_name) == CHOOSE i \in 1..Len(entity_order) : entity_order[i] = entity_name

UnknownEntityType(a) == a.entity_names \ Tables # {}

\* some type's field metadata requires a type that is not strictly earlier
LateDependency(a) ==
    \E e \in Tables :
        \E field \in DOMAIN a.all_fields_info[e] :
            LET required == a.all_fields_info[e][field]
            IN required \notin Tables \/ Position(required) >= Position(e)

\* the rows of table e that carry a unique identifier of the archive
ArchiveRows(d, a, e) ==
    {r \in d[e] : r[unique_identifiers[e]] \in
                      {a.entities[e][i][2][unique_identifiers[e]] : i \in 1..Len(a.entities[e])}}

\* C12: a call on an archive with an entity type outside the six known ones,
\* or with a type that requires a type not strictly earlier in the order,
\* never gets to classify: it ends in the call itself with a fatal error and
\* no record of the archive is persisted.
C12_PreflightFatal ==
    (runs > 0 /\ (UnknownEntityType(archive) \/ LateDependency(archive))) =>
        /\ pc = "idle"
        /\ outcome \in {"ImportValidationError", "ArchiveImportError", "DanglingLinkError"}
        /\ UnknownEntityType(archive) => outcome # "ArchiveImportError"
        /\ new_entries = Empty /\ existing_entries = Empty
        /\ \A e \in Tables : ArchiveRows(db, archive, e) = ArchiveRows(pre, archive, e)
        /\ db.links = pre.links /\ db.members = pre.members

\* a call on an archive whose Node type requires Node was refused
C12_Witness ==
    /\ Done
    /\ ~UnknownEntityType(archive)
    /\ \E e \in Tables : \E field \in DOMAIN archive.all_fields_info[e] :
           archive.all_fields_info[e][field] = e
    /\ outcome = "ArchiveImportError"

\* the node ids attached to the group of id gid
Members(d, gid) == {m[2] : m \in {x \in d.members : x[1] = gid}}

\* the storage ids of the node records of the archive
ArchiveNodeIds(d, a) == {n.id : n \in {x \in d.Node : x.uuid \in iter_node_uuids(a)}}

\* C13: after a successful run the group returned by the final step holds
\* the storage id of every node record of the archive, created or matched,
\* and the step has attached no other node to it.
C13_ImportGroupMembers ==
    Succeeded =>
        /\ \E g \in db.Group : g.id = import_group
        /\ ArchiveNodeIds(db, archive) \subseteq Members(db, import_group)
        /\ Members(db, import_group) \ Members(pre, import_group)
               \subseteq ArchiveNodeIds(db, archive)

\* a successful run with node records it created and node records it matched
C13_Witness ==
    /\ Succeeded
    /\ NODE_ENTITY_NAME \in DOMAIN ret_dict
    /\ ret_dict[NODE_ENTITY_NAME].new # <<>>
    /\ ret_dict[NODE_ENTITY_NAME].existing # <<>>
    /\ Cardinality(Members(db, import_group)) >= 3

\* C14: when the final import-group step fails, everything the main
\* transaction did stays: every record of the archive has its row, every
\* link between nodes of the archive is stored and every membership record
\* the group step went through is attached.
C14_CommitBeforeImportGroup ==
    (Done /\ outcome = "ImportGroupFailure") =>
        /\ \A e \in Tables :
               \A i \in 1..Len(archive.entities[e]) :
                   \E r \in db[e] :
                       r[unique_identifiers[e]] = archive.entities[e][i][2][unique_identifiers[e]]
        /\ \A l \in Range(archive.links) \ DanglingLinks(archive) :
               \E source, target \in db.Node :
                   /\ source.uuid = l.input
                   /\ target.uuid = l.output
                   /\ <<source.id, target.id, l.label, l.type>> \in db.links
        \* line 673: a run whose archive has no group record attaches no member
        /\ entity_count(archive, GROUP_ENTITY_NAME) > 0 =>
               \A gu \in Range(archive.group_uuids) :
                   \A m \in gu[2] :
                       \E g \in db.Group, n \in db.Node :
                           g.uuid = gu[1] /\ n.uuid = m /\ <<g.id, n.id>> \in db.members

\* the final step failed after a run that had created nodes and links
C14_Witness ==
    /\ Done
    /\ outcome = "ImportGroupFailure"
    /\ db.Node # pre.Node
    /\ db.links # pre.links

\* the main transaction of the last call has committed
Committed == Done /\ outcome \in {"ok", "ImportGroupFailure"}

\* the records of the archive's comments
ArchiveComments(a) ==
    {a.entities[COMMENT_ENTITY_NAME][i][2] : i \in 1..Len(a.entities[COMMENT_ENTITY_NAME])}

\* C15: under comment_mode "newest", for a comment of the archive whose UUID
\* was stored: if the imported mtime is later, the stored row carries the
\* imported content and no comment is added; if it is earlier, the stored row
\* is untouched and the imported comment is one new row under an identifier
\* that is neither its own nor one stored before.
C15_CommentMergeNewest ==
    (Committed /\ args.comment_mode = "newest") =>
        \A c \in ArchiveComments(archive) :
            \A stored \in {r \in pre.Comment : r.uuid = c.uuid} :
                LET added == {r \in db.Comment \ pre.Comment :
                                 r.uuid \notin UniqueIds(pre, COMMENT_ENTITY_NAME)}
                IN /\ c.mtime > stored.mtime =>
                          /\ \E r \in db.Comment :
                                 r.uuid = c.uuid /\ r.id = stored.id /\ r.content = c.content
                          /\ added = {}
                   /\ c.mtime < stored.mtime =>
                          /\ stored \in db.Comment
                          /\ Cardinality(added) = 1
                          /\ \A r \in added : r.content = c.content /\ r.mtime = c.mtime

\* an import under "newest" of a comment older than the stored one of its UUID
C15_Witness ==
    /\ Committed
    /\ args.comment_mode = "newest"
    /\ \E c \in ArchiveComments(archive) :
           \E stored \in pre.Comment : stored.uuid = c.uuid /\ c.mtime < stored.mtime
    /\ Cardinality(db.Comment) = Cardinality(pre.Comment) + 1

\* the extras of a record of the archive
ExtrasOf(fields) == IF "extras" \in DOMAIN fields THEN fields.extras ELSE Empty

\* the node records of the archive
ArchiveNodes(a) ==
    {a.entities[NODE_ENTITY_NAME][i][2] : i \in 1..Len(a.entities[NODE_ENTITY_NAME])}

\* C16: after an import with a valid extras_mode_existing, the extras of a
\* node that was stored before are, key by key: a key only in storage kept
\* ("k") or dropped ("n") by letter 1; a key only in the import created ("c")
\* or ignored ("n") by letter 2; a colliding key left ("l"), updated ("u") or
\* deleted ("d") by letter 3.  Stored {a:1,b:2}, imported {b:3,c:4} and "kcl"
\* give {a:1,b:2,c:4}.
C16_ExtrasMerge ==
    (Committed /\ ValidExtrasMode(args.extras_mode_existing)) =>
        \A n \in ArchiveNodes(archive) :
            \A stored \in {r \in pre.Node : r.uuid = n.uuid} :
                \A row \in {r \in db.Node : r.uuid = n.uuid} :
                    LET mode == args.extras_mode_existing
                        old == stored.extras
                        imported == ExtrasOf(n)
                        new == row.extras
                    IN /\ DOMAIN new \subseteq DOMAIN old \cup DOMAIN imported
                       /\ \A k \in DOMAIN old \ DOMAIN imported :
                              IF mode[1] = "k" THEN k \in DOMAIN new /\ new[k] = old[k]
                              ELSE k \notin DOMAIN new
                       /\ \A k \in DOMAIN imported \ DOMAIN old :
                              IF mode[2] = "c" THEN k \in DOMAIN new /\ new[k] = imported[k]
                              ELSE k \notin DOMAIN new
                       /\ \A k \in DOMAIN imported \cap DOMAIN old :
                              /\ mode[3] = "l" => k \in DOMAIN new /\ new[k] = old[k]
                              /\ mode[3] = "u" => k \in DOMAIN new /\ new[k] = imported[k]
                              /\ mode[3] = "d" => k \notin DOMAIN new
                              /\ mode[3] = "a" => k \in DOMAIN new /\ new[k] \in {old[k], imported[k]}
                       /\ (mode = <<"k", "c", "l">> /\ old = [a |-> 1, b |-> 2]
                               /\ imported = [b |-> 3, c |-> 4])
                              => new = [a |-> 1, b |-> 2, c |-> 4]

\* the example of the claim: stored {a:1,b:2}, imported {b:3,c:4}, "kcl"
C16_Witness ==
    /\ Committed
    /\ args.extras_mode_existing = <<"k", "c", "l">>
    /\ \E n \in ArchiveNodes(archive) :
           /\ ExtrasOf(n) = [b |-> 3, c |-> 4]
           /\ \E stored \in pre.Node : stored.uuid = n.uuid /\ stored.extras = [a |-> 1, b |-> 2]
           /\ \E row \in db.Node : row.uuid = n.uuid /\ row.extras = [a |-> 1, b |-> 2, c |-> 4]

(***************************************************************************)
(* C17: the batch size of the bulk inserts.                                *)
(***************************************************************************)
\* what the running call holds now, as batch_results records it
Current == [db |-> db, ret_dict |-> ret_dict]

\* C17: batching is invisible.  Whatever value of at least 1 db.batch_size
\* has, the bulk insert of a materialization or link step leaves the same
\* storage and reports the same Import Result as the one the run continues
\* with; step by step, two runs that differ only in the batch size therefore
\* go through the same states and end in the same storage with the same result.
C17_BatchSizeIndependence ==
    (pc \in {"store", "links", "groups"} /\ batch_results # {})
        => batch_results = {Current}

\* a link step that stored two links of the archive at once, which batch
\* size 1 inserts in two batches and batch size 2 in one, after a
\* materialization that created more nodes than one batch holds
C17_Witness ==
    /\ pc = "groups"
    /\ batch_results = {Current}
    /\ Cardinality(db.links \ txn.links) >= 2
    /\ Cardinality(db.Node) - Cardinality(txn.Node) > MaxBatch

(***************************************************************************)
(* C18: the order of the phases.                                           *)
(***************************************************************************)
\* the phases of the with block of lines 206-267
InTransaction == {"select", "store", "links", "groups"}

\* the parts of the storage other than the given ones are left alone
OnlyWrites(parts) == \A f \in DOMAIN db \ parts : db'[f] = db[f]

\* one step of a run obeys the order of the phases
PhaseStep ==
    \* every type is classified, in entity_order, before the first is materialized
    /\ pc = "select" =>
           \/ pc' = "select" /\ idx < Len(entity_order) /\ idx' = idx + 1 /\ OnlyWrites({})
           \/ pc' = "store" /\ idx = Len(entity_order) /\ idx' = 1 /\ OnlyWrites({})
                 /\ archive.entity_names \subseteq DOMAIN new_entries'
           \/ pc' = "idle"
    \* every type is materialized, in entity_order, before the first link is written
    /\ pc = "store" =>
           \/ pc' = "store" /\ idx < Len(entity_order) /\ idx' = idx + 1
                 /\ OnlyWrites({entity_order[idx]})
           \/ pc' = "links" /\ idx = Len(entity_order) /\ OnlyWrites({entity_order[idx]})
           \/ pc' = "idle"
    \* the links are written before the first membership is attached
    /\ pc = "links" => (pc' = "groups" /\ OnlyWrites({"links"})) \/ pc' = "idle"
    /\ pc = "groups" => (pc' = "import_group" /\ OnlyWrites({"members"})) \/ pc' = "idle"
    \* one transaction spans the four phases: leaving any of them with an
    \* exception restores the storage the transaction started with
    /\ pc \in InTransaction =>
           /\ txn' = txn
           /\ pc' = "idle" => (db' = txn /\ outcome' \notin {"ok", "running"})
    /\ pc' = "select" /\ pc # "select" => pc = "idle" /\ idx' = 1 /\ db' = txn'

\* C18: within one run all six types are classified in the order User,
\* Computer, Node, Group, Log, Comment before any type is materialized, all
\* are materialized in that order before any link is written, the links are
\* written before any membership is attached, and all of it is inside one
\* transaction.
C18_PhaseOrdering == [][PhaseStep]_vars

\* the end of the with block of a run in which every write phase wrote:
\* rows of two types, a link and a membership
C18_Witness ==
    /\ pc = "import_group"
    /\ db.Node # txn.Node
    /\ db.Group # txn.Group
    /\ db.links # txn.links
    /\ db.members # txn.members

(***************************************************************************)
(* C19: archives that leave entity types out of entity_names.              *)
(***************************************************************************)
\* entity_names lists some of the six types, not all, and every record of
\* the archive is of a listed type
OmitsTypes(a) ==
    /\ a.entity_names \subseteq Tables
    /\ a.entity_names # Tables
    /\ \A e \in Tables \ a.entity_names : a.entities[e] = <<>>

\* C19: an archive whose entity_names omits one or more of the six entity
\* types imports successfully: the absent types are skipped and the records
\* of the listed types are in storage afterwards.
C19_OmittedTypesImport ==
    (Done /\ OmitsTypes(archive) /\ ValidArgs(args) /\ DanglingLinks(archive) = {}
          /\ DanglingMemberships(archive) = {}) =>
        /\ outcome = "ok"
        /\ \A e \in archive.entity_names :
               \A i \in 1..Len(archive.entities[e]) :
                   \E r \in db[e] :
                       r[unique_identifiers[e]] = archive.entities[e][i][2][unique_identifiers[e]]

(***************************************************************************)
(* C20: a link with an endpoint the node map does not hold.                *)
(***************************************************************************)
\* the link step is about to start with a link whose endpoint is absent from
\* the map from node unique ids to storage ids
UnknownEndpointFirst ==
    /\ pc = "links"
    /\ archive.links # <<>>
    /\ ~Resolved(foreign_ids_reverse_mappings, archive.links[1])

\* C20: when an endpoint of a link is absent from the node map, with
\* ignore_unknown_nodes the link is dropped and the step goes on with the
\* next link, so that it ends as it would without that link; otherwise the
\* run fails with DanglingLinkError.
C20_UnknownEndpoint ==
    [][UnknownEndpointFirst =>
           IF args.ignore_unknown_nodes
           THEN LET rest == LinkLoop(db, Tail(archive.links), foreign_ids_reverse_mappings,
                                     TRUE, 1,
                                     [existing_links |-> db.links, links_to_store |-> <<>>,
                                      new |-> <<>>, err |-> ""])
                IN IF rest.err # "" THEN pc' = "idle" /\ outcome' = rest.err
                   ELSE pc' = "groups" /\ db'.links = db.links \cup Range(rest.links_to_store)
           ELSE pc' = "idle" /\ outcome' = "DanglingLinkError"]_vars

(***************************************************************************)
(* C21: links of one archive against each other.                           *)
(***************************************************************************)
\* a link record as the 4-tuple of its endpoint UUIDs, label and type
LinkTuple(l) == <<l.input, l.output, l.label, l.type>>

\* the links the run has written
NewLinks == db.links \ pre.links

\* the archive has two link records between node records of the archive,
\* and storage held no link between the nodes they name
TwoFreshLinks ==
    /\ Len(archive.links) = 2
    /\ \A l \in Range(archive.links) : {l.input, l.output} \subseteq iter_node_uuids(archive)
    /\ \A t \in pre.links :
           \A n \in pre.Node :
               n.id \in {t[1], t[2]} =>
                   \A l \in Range(archive.links) : n.uuid \notin {l.input, l.output}

\* C21: an accepted link counts as present for the links after it.  Two
\* links of one archive that jointly break a degree class, neither in
\* storage, make the run fail with a validation error and no link written;
\* an exact repeat of a link record adds one link, not two; and the links a
\* committed run wrote respect the degree classes among themselves.  (A run
\* the repository copy has failed never comes to its links.)
C21_WithinRunCardinality ==
    (Done /\ ValidArgs(args) /\ TwoFreshLinks /\ outcome # "RepositoryCopyError") =>
        LET t1 == LinkTuple(archive.links[1])
            t2 == LinkTuple(archive.links[2])
        IN /\ (t1 # t2 /\ ~CardinalityRule({t1, t2})) =>
                  (outcome = "ImportValidationError" /\ db.links = pre.links)
           /\ Committed =>
                  /\ CardinalityRule(NewLinks)
                  /\ t1 = t2 => Cardinality(NewLinks) <= 1
                  /\ (t1 = t2 /\ "Link" \in DOMAIN ret_dict) => Len(ret_dict["Link"].new) = 1

\* two CREATE links into the same data node, neither in storage: the run
\* was refused
C21_Witness ==
    /\ Done
    /\ TwoFreshLinks
    /\ archive.links[1].type = "create"
    /\ archive.links[2].type = "create"
    /\ archive.links[1].output = archive.links[2].output
    /\ archive.links[1].label # archive.links[2].label
    /\ outcome = "ImportValidationError"
    /\ db.links = pre.links

(***************************************************************************)
(* C22: a link that storage already holds.                                 *)
(***************************************************************************)
\* storage holds the 4-tuple the link record resolves to
AlreadyStored(l) ==
    \E source, target \in db.Node :
        /\ source.uuid = l.input
        /\ target.uuid = l.output
        /\ <<source.id, target.id, l.label, l.type>> \in db.links

\* C22: a link whose resolved 4-tuple is in storage is skipped without an
\* error, whatever its endpoint classes and degree situation: a link step
\* whose link records are all in storage ends without an error, writes no
\* link and reports none.
C22_ExistingLinkSkipped ==
    [][(pc = "links" /\ archive.links # <<>>
          /\ \A l \in Range(archive.links) : AlreadyStored(l)) =>
           /\ pc' = "groups"
           /\ db' = db
           /\ ret_dict' = ret_dict
           /\ "Link" \notin DOMAIN ret_dict']_vars

\* the link step has gone over two stored links: one whose endpoint classes
\* do not fit its type, and one whose target already has its one incoming
\* link of the type
C22_Witness ==
    /\ pc = "groups"
    /\ archive.links = <<Link("d1", "c1", "a", "create"), Link("c1", "d1", "a", "create")>>
    /\ \A l \in Range(archive.links) : AlreadyStored(l)
    /\ db.links = txn.links
    /\ "Link" \notin DOMAIN ret_dict

(***************************************************************************)
(* C23: the endpoint classes of a link type.                               *)
(***************************************************************************)
\* the node types of the endpoints of the 4-tuple have the prefixes its
\* link type requires
ClassesFit(d, t) ==
    /\ t[4] \in LinkTypes
    /\ \E source, target \in d.Node :
           /\ source.id = t[1]
           /\ target.id = t[2]
           /\ startswith(source.node_type, link_mapping(t[4])[1])
           /\ startswith(target.node_type, link_mapping(t[4])[2])

\* a link record of a known type between node records of the archive whose
\* node types do not have the prefixes the type requires
WrongClasses(a, l) ==
    /\ l.type \in LinkTypes
    /\ \E i, j \in 1..Len(a.entities[NODE_ENTITY_NAME]) :
           LET source == a.entities[NODE_ENTITY_NAME][i][2]
               target == a.entities[NODE_ENTITY_NAME][j][2]
           IN /\ source.uuid = l.input
              /\ target.uuid = l.output
              /\ \/ ~startswith(source.node_type, link_mapping(l.type)[1])
                 \/ ~startswith(target.node_type, link_mapping(l.type)[2])

\* C23: every link the link step writes joins nodes of the classes its type
\* requires, and a link step that meets a new link of the wrong classes
\* ends the run with a validation error and the storage rolled back.
C23_EndpointClasses ==
    [][pc = "links" =>
           /\ pc' = "groups" => \A t \in db'.links \ db.links : ClassesFit(db', t)
           /\ (\E l \in Range(archive.links) : WrongClasses(archive, l) /\ ~AlreadyStored(l)) =>
                  (pc' = "idle" /\ outcome' = "ImportValidationError" /\ db' = txn)]_vars

\* a run that a create link from a data node to a calculation node, not in
\* storage, has ended
C23_Witness ==
    /\ Done
    /\ outcome = "ImportValidationError"
    /\ archive.links = <<Link("d1", "c1", "a", "create")>>
    /\ WrongClasses(archive, archive.links[1])
    /\ pre.links = {}
    /\ db = pre

(***************************************************************************)
(* C24: foreign keys.                                                      *)
(***************************************************************************)
\* the types the records of entity_name refer to
Requires(a, entity_name) ==
    {a.all_fields_info[entity_name][k] : k \in DOMAIN a.all_fields_info[entity_name]}

\* the unique identifiers of the archive's records of the type
ArchiveIds(a, entity_name) ==
    {a.entities[entity_name][i][2][a.unique_identifiers[entity_name]] :
         i \in 1..Len(a.entities[entity_name])}

\* the map of type D sends every unique identifier of D in the archive to
\* the id of the row of D that carries it
MapComplete(D) ==
    /\ D \in DOMAIN foreign_ids_reverse_mappings
    /\ \A u \in ArchiveIds(archive, D) :
           /\ u \in DOMAIN foreign_ids_reverse_mappings[D]
           /\ \E r \in db[D] :
                  /\ r[archive.unique_identifiers[D]] = u
                  /\ r.id = foreign_ids_reverse_mappings[D][u]

\* the rows the run created for records of the archive refer to the rows of
\* the records their foreign keys name
ForeignKeysKept ==
    \A T \in Tables :
        \A i \in 1..Len(archive.entities[T]) :
            LET fields == archive.entities[T][i][2]
                uid == archive.unique_identifiers[T]
            IN \A r \in db[T] \ pre[T] :
                   r[uid] = fields[uid] =>
                       \A k \in DOMAIN fields \cap DOMAIN archive.all_fields_info[T] :
                           LET D == archive.all_fields_info[T][k]
                           IN \A j \in 1..Len(archive.entities[D]) :
                                  archive.entities[D][j][1] = fields[k] =>
                                      \E q \in db[D] :
                                          /\ q[archive.unique_identifiers[D]] =
                                                 archive.entities[D][j][2][archive.unique_identifiers[D]]
                                          /\ k \in DOMAIN r
                                          /\ r[k] = q.id

\* C24: when the records of type T are about to be materialized, the map of
\* every type T requires holds every unique identifier of that type in the
\* archive, matched or newly persisted; and the rows a committed run created
\* carry the storage ids of the records their foreign keys name.
C24_ForeignKeysResolve ==
    /\ pc = "store" => \A D \in Requires(archive, entity_order[idx]) : MapComplete(D)
    /\ Committed => ForeignKeysKept

\* the nodes are about to be materialized and the user they belong to was
\* persisted by this run
C24_Witness ==
    /\ pc = "store"
    /\ entity_order[idx] = NODE_ENTITY_NAME
    /\ new_entries[NODE_ENTITY_NAME] # <<>>
    /\ MapComplete(USER_ENTITY_NAME)
    /\ db.User # txn.User

(***************************************************************************)
(* C25: the names of the computers a run creates.                          *)
(***************************************************************************)
Names(rows) == {r.name : r \in rows}

\* the computers the run has created
NewComputers == {r \in db.Computer : r.uuid \notin UniqueIds(pre, COMPUTER_ENTITY_NAME)}

\* C25: after a successful run every computer the run created has a name
\* that no computer stored before the run had and that no other computer
\* created by the run has.
C25_ComputerNames ==
    Committed =>
        \A r \in NewComputers :
            /\ r.name \notin Names(pre.Computer)
            /\ \A q \in NewComputers : q.name = r.name => q = r

\* a successful run created two computers that have one name in the archive
C25_Witness ==
    /\ Succeeded
    /\ \E r, q \in NewComputers :
           /\ r # q
           /\ \E i, j \in 1..Len(archive.entities[COMPUTER_ENTITY_NAME]) :
                  LET a == archive.entities[COMPUTER_ENTITY_NAME][i][2]
                      b == archive.entities[COMPUTER_ENTITY_NAME][j][2]
                  IN a.uuid = r.uuid /\ b.uuid = q.uuid /\ a.name = b.name
           /\ r.name # q.name

(***************************************************************************)
(* C26: the collision rules and matched records.                           *)
(***************************************************************************)
\* the group and computer records of the archive
RenamedRecords(a) ==
    Range(a.entities[GROUP_ENTITY_NAME]) \cup Range(a.entities[COMPUTER_ENTITY_NAME])

\* C26: the collision rules apply to unmatched records only.  A run over an
\* archive whose group and computer records all match a stored row by their
\* unique identifier does not end in ImportUniquenessError, whatever labels
\* and names storage holds.
C26_MatchedNeverCollide ==
    (/\ Done
     /\ RenamedRecords(archive) # {}
     /\ \A e \in {GROUP_ENTITY_NAME, COMPUTER_ENTITY_NAME} :
            ArchiveIds(archive, e) \subseteq UniqueIds(pre, e))
        => outcome # "ImportUniquenessError"

(***************************************************************************)
(* C27: the renaming loops end.                                            *)
(***************************************************************************)
\* the candidate the loop tries after dupl_counter renames
Candidate(orig, dupl_counter) == orig \o DUPL_SUFFIX(dupl_counter)

\* the name and the label of the computer and group records of the archives
ArchiveComputerName == "comp"
ArchiveGroupLabel == "L"

\* the sets imported_comp_names can be when a record is examined
ClaimedNames ==
    SUBSET ({ArchiveComputerName}
                \cup {Candidate(ArchiveComputerName, k) : k \in 0..MAX_COMPUTERS})

\* the loop made at most max renames and ended with a free name or with
\* ImportUniquenessError
EndsWithin(result, orig, max, taken) ==
    /\ result.err \in {"", "ImportUniquenessError"}
    /\ result.value \in {orig} \cup {Candidate(orig, k) : k \in 0..(max - 1)}
    /\ result.err = "" => result.value \notin taken

\* C27: over every storage the runs reach and every set of names claimed
\* within a run, the renaming loop of a computer ends after at most
\* MAX_COMPUTERS renames and that of a group after at most MAX_GROUPS, with
\* a name that does not collide or with ImportUniquenessError.
C27_RenamingTerminates ==
    /\ \A imported_comp_names \in ClaimedNames :
           EndsWithin(ComputerName(db, imported_comp_names, ArchiveComputerName,
                                   ArchiveComputerName, 0),
                      ArchiveComputerName, MAX_COMPUTERS,
                      Names(db.Computer) \cup imported_comp_names)
    /\ EndsWithin(GroupLabel(db, ArchiveGroupLabel, ArchiveGroupLabel, 0),
                  ArchiveGroupLabel, MAX_GROUPS, {r.label : r \in db.Group})

\* a run ended at the ceiling of the computer loop, and storage holds a
\* computer the loop had renamed once
C27_Witness ==
    /\ Done
    /\ outcome = "ImportUniquenessError"
    /\ archive.entities[COMPUTER_ENTITY_NAME] # <<>>
    /\ ComputerName(pre, {}, ArchiveComputerName, ArchiveComputerName, 0).err # ""
    /\ \E r \in db.Computer : r.uuid = "p2" /\ r.name = Candidate(ArchiveComputerName, 0)

(***************************************************************************)
(* C28: when the renaming loops give up.                                   *)
(***************************************************************************)
\* the original name and the suffixed candidates with counter 0..max-1
Candidates(orig, max) == <<orig>> \o [k \in 1..max |-> Candidate(orig, k - 1)]

\* the loop fails only when every candidate is taken, and otherwise accepts
\* the record under the first candidate that is free
FirstFree(result, orig, max, taken) ==
    LET candidates == Candidates(orig, max)
        free == {i \in 1..Len(candidates) : candidates[i] \notin taken}
    IN IF free = {}
       THEN result.err = "ImportUniquenessError"
       ELSE /\ result.err = ""
            /\ result.value = candidates[CHOOSE i \in free : \A j \in free : i <= j]

\* C28: ImportUniquenessError is raised for a group or computer only if the
\* original name and every suffixed candidate with counter 0..MAX-1
\* collide; when a candidate within that bound is free the record is
\* accepted under the first free one.
C28_RaisedOnlyWhenExhausted ==
    /\ \A imported_comp_names \in ClaimedNames :
           FirstFree(ComputerName(db, imported_comp_names, ArchiveComputerName,
                                  ArchiveComputerName, 0),
                     ArchiveComputerName, MAX_COMPUTERS,
                     Names(db.Computer) \cup imported_comp_names)
    /\ FirstFree(GroupLabel(db, ArchiveGroupLabel, ArchiveGroupLabel, 0),
                 ArchiveGroupLabel, MAX_GROUPS, {r.label : r \in db.Group})

(***************************************************************************)
(* C29: a computer that collides with nothing keeps its name.              *)
(***************************************************************************)
\* C29: after a successful run, a computer the run created whose name in the
\* archive is the name of no computer stored before the run and of no other
\* computer the run created is stored under its name in the archive.
C29_NameKept ==
    Committed =>
        \A r \in NewComputers :
            \A i \in 1..Len(archive.entities[COMPUTER_ENTITY_NAME]) :
                LET fields == archive.entities[COMPUTER_ENTITY_NAME][i][2]
                IN (/\ fields.uuid = r.uuid
                    /\ fields.name \notin Names(pre.Computer)
                    /\ \A q \in NewComputers \ {r} : q.name # fields.name)
                       => r.name = fields.name

(***************************************************************************)
(* C30: a redirected comment is persisted by the same call.                *)
(***************************************************************************)
\* the materialization call of the comments is about to run
StoringComments == pc = "store" /\ entity_order[idx] = COMMENT_ENTITY_NAME

\* the existing entries of the comments that "newest" redirects: the stored
\* comment of their identifier is the newer one
Redirected ==
    {e \in Range(existing_entries[COMMENT_ENTITY_NAME]) :
        /\ args.comment_mode = "newest"
        /\ \E stored \in db.Comment : stored.uuid = e[2].uuid /\ e[2].mtime < stored.mtime}

\* C30: a comment the merge policy redirects during the existing-entries
\* pass is persisted exactly once by the new-entries pass of the same
\* materialization call, under an identifier that is neither its own nor
\* one of a stored comment and with the result listing it as new, and the
\* stored comment of the original identifier is still there.
C30_RedirectedCommentStored ==
    [][(StoringComments /\ pc' = "links") =>
           \A e \in Redirected :
               LET rows == {r \in db'.Comment \ db.Comment :
                               r.content = e[2].content /\ r.mtime = e[2].mtime}
               IN /\ Cardinality(rows) = 1
                  /\ \A r \in rows :
                         /\ r.uuid # e[2].uuid
                         /\ r.uuid \notin UniqueIds(db, COMMENT_ENTITY_NAME)
                         /\ COMMENT_ENTITY_NAME \in DOMAIN ret_dict'
                         /\ <<e[1], r.id>> \in Range(ret_dict'[COMMENT_ENTITY_NAME].new)
                  /\ \A stored \in db.Comment :
                         stored.uuid = e[2].uuid => stored \in db'.Comment]_vars

\* the link step is next, and the materialization of the comments has added
\* to the stored comment of the archive's identifier a second comment with
\* the imported content
C30_Witness ==
    /\ pc = "links"
    /\ args.comment_mode = "newest"
    /\ \E c \in ArchiveComments(archive) :
           /\ \E stored \in txn.Comment \cap db.Comment :
                  stored.uuid = c.uuid /\ c.mtime < stored.mtime
           /\ \E r \in db.Comment \ txn.Comment :
                  r.content = c.content /\ r.uuid # c.uuid
    /\ Cardinality(db.Comment) = Cardinality(txn.Comment) + 1

(***************************************************************************)
(* C31: the lists of the Import Result.                                    *)
(***************************************************************************)
\* the archive-local ids of a list of <<archive-local id, storage id>> pairs
ImportPks(pairs) == {pairs[i][1] : i \in 1..Len(pairs)}

\* no archive-local id is in the list twice
NoRepeat(pairs) == \A i, j \in 1..Len(pairs) : pairs[i][1] = pairs[j][1] => i = j

\* C31: in the Import Result of a successful run, for each entity type, no
\* archive-local id is in both the 'new' and the 'existing' list and none is
\* twice in one list.
C31_ResultPartition ==
    Succeeded =>
        \A e \in DOMAIN ret_dict \cap Tables :
            /\ ImportPks(ret_dict[e].new) \cap ImportPks(ret_dict[e].existing) = {}
            /\ NoRepeat(ret_dict[e].new)
            /\ NoRepeat(ret_dict[e].existing)

(***************************************************************************)
(* C32: the repository copy and the node rows.                             *)
(***************************************************************************)
\* the identifiers of the node rows of a storage
NodeUuids(d) == {r.uuid : r \in d.Node}

\* the step is the materialization call of the nodes and has come as far
\* as the repository copy
CopyingStep ==
    /\ pc = "store"
    /\ entity_order[idx] = NODE_ENTITY_NAME
    /\ Len(copied') = Len(copied) + 1

\* C32: a step that adds node rows to the storage is a materialization call
\* of the nodes that has called the repository-copy collaborator; the
\* collaborator is called once, with exactly the identifiers of the new node
\* records, while the storage holds a row for none of them; the rows the step
\* adds are rows of these identifiers; and when the collaborator fails the
\* run ends with an exception and the storage is the one the transaction
\* began with, its node rows those of before the run.
C32_RepositoryCopyFirst ==
    [][/\ NodeUuids(db') \ NodeUuids(db) # {} => CopyingStep
       /\ CopyingStep =>
            LET call == copied'[Len(copied')]
                new_uuids == {e[2].uuid : e \in Range(new_entries[NODE_ENTITY_NAME])}
            IN /\ Len(copied) = 0
               /\ call.uuids_to_create = new_uuids
               /\ call.visible = NodeUuids(db)
               /\ call.visible \cap call.uuids_to_create = {}
               /\ NodeUuids(db') \ NodeUuids(db) \subseteq call.uuids_to_create
               /\ outcome' = "running" =>
                      NodeUuids(db') = NodeUuids(db) \cup call.uuids_to_create
               /\ outcome' = "RepositoryCopyError" =>
                      /\ pc' = "idle"
                      /\ db' = txn
                      /\ db'.Node = pre.Node
                      /\ NodeUuids(db') \cap call.uuids_to_create = {}]_vars

\* a run has ended with the failure of the collaborator, which was called
\* with the identifiers of new nodes and for none of which the storage has a
\* row; an earlier call of the collaborator has staged files
C32_Witness ==
    /\ pc = "idle"
    /\ outcome = "RepositoryCopyError"
    /\ Len(copied) = 1
    /\ copied[1].uuids_to_create # {}
    /\ NodeUuids(db) \cap copied[1].uuids_to_create = {}
    /\ repo # {}

(***************************************************************************)
(* C33: the classifier and the storage.                                    *)
(***************************************************************************)
\* the partition and the resolution table of every type but the given one
\* are as they were
OtherTypesKept(entity_name) ==
    /\ \A e \in DOMAIN new_entries \ {entity_name} :
           e \in DOMAIN new_entries' /\ new_entries'[e] = new_entries[e]
    /\ \A e \in DOMAIN existing_entries \ {entity_name} :
           e \in DOMAIN existing_entries' /\ existing_entries'[e] = existing_entries[e]
    /\ \A e \in DOMAIN foreign_ids_reverse_mappings \ {entity_name} :
           /\ e \in DOMAIN foreign_ids_reverse_mappings'
           /\ foreign_ids_reverse_mappings'[e] = foreign_ids_reverse_mappings[e]

\* C33: a classification call, of any entity type and whether it returns or
\* raises, leaves every table of the storage, the staged files, the archive
\* and the arguments as they are; a call that returns changes nothing but the
\* partitions and the resolution table of its own type.
C33_ClassifierReadOnly ==
    [][pc = "select" =>
          /\ db' = db
          /\ repo' = repo
          /\ archive' = archive
          /\ args' = args
          /\ group' = group
          /\ pc' # "idle" =>
                 /\ OtherTypesKept(entity_order[idx])
                 /\ ret_dict' = ret_dict
                 /\ pks_for_group' = pks_for_group
                 /\ outcome' = outcome]_vars

\* every type is classified and the storage is the one of the transaction's
\* start: records were matched, records are new, and a new computer was
\* given a name that is not its archive's
C33_Witness ==
    /\ pc = "store"
    /\ idx = 1
    /\ db = txn
    /\ \E e \in DOMAIN existing_entries : existing_entries[e] # <<>>
    /\ \E e \in DOMAIN new_entries : new_entries[e] # <<>>
    /\ COMPUTER_ENTITY_NAME \in DOMAIN new_entries
    /\ \E e \in Range(new_entries[COMPUTER_ENTITY_NAME]) :
           \E r \in Range(archive.entities[COMPUTER_ENTITY_NAME]) :
               r[1] = e[1] /\ r[2].name # e[2].name

(***************************************************************************)
(* C34: the stored rows the archive's records match.                       *)
(***************************************************************************)
\* the rows the storage held at the start of the call that a record of the
\* archive matches by its unique identifier
MatchedRows(entity_name) ==
    IF entity_name \in DOMAIN archive.entities
           /\ entity_name \in DOMAIN archive.unique_identifiers
    THEN {r \in pre[entity_name] :
             r[archive.unique_identifiers[entity_name]] \in ArchiveIds(archive, entity_name)}
    ELSE {}

\* the rows of the storage that have the id of the given row
RowOf(entity_name, stored) == {r \in db[entity_name] : r.id = stored.id}

\* the two rows agree in every field but the given ones
SameBut(r, stored, fields) ==
    /\ DOMAIN r = DOMAIN stored
    /\ \A f \in DOMAIN stored \ fields : r[f] = stored[f]

\* C34: at every point of a run and after it, a row the storage held at the
\* start of the run and a record of the archive matches is still there under
\* its id: for a User, Computer, Group or Log with every field as it was; for
\* a Node with every field but the extras as it was; for a Comment either as
\* it was or, when the mode is "overwrite" or the archive's comment is the
\* newer one, with the content and the modification time of the archive's
\* comment and every other field as it was.
C34_ExistingRowsKept ==
    runs > 0 =>
        /\ \A e \in {USER_ENTITY_NAME, COMPUTER_ENTITY_NAME, GROUP_ENTITY_NAME,
                     LOG_ENTITY_NAME} :
               \A stored \in MatchedRows(e) : stored \in db[e]
        /\ \A stored \in MatchedRows(NODE_ENTITY_NAME) :
               /\ Cardinality(RowOf(NODE_ENTITY_NAME, stored)) = 1
               /\ \A r \in RowOf(NODE_ENTITY_NAME, stored) : SameBut(r, stored, {"extras"})
        /\ \A stored \in MatchedRows(COMMENT_ENTITY_NAME) :
               /\ Cardinality(RowOf(COMMENT_ENTITY_NAME, stored)) = 1
               /\ \A r \in RowOf(COMMENT_ENTITY_NAME, stored) :
                      \/ r = stored
                      \/ /\ SameBut(r, stored, {"content", "mtime"})
                         /\ \E c \in ArchiveComments(archive) :
                                /\ c.uuid = stored.uuid
                                /\ r.content = c.content
                                /\ r.mtime = c.mtime
                                /\ args.comment_mode = "overwrite"
                                       \/ (args.comment_mode = "newest"
                                              /\ c.mtime > stored.mtime)

\* a run has succeeded whose archive had, for a stored computer, a record
\* under another name and, for a stored node, a record whose extras the
\* merge wrote: the computer's row is as it was and the node's row differs
\* in its extras
C34_Witness ==
    /\ Succeeded
    /\ \E stored \in MatchedRows(COMPUTER_ENTITY_NAME) :
           /\ stored \in db.Computer
           /\ \E rec \in Range(archive.entities[COMPUTER_ENTITY_NAME]) :
                  rec[2].uuid = stored.uuid /\ rec[2].name # stored.name
    /\ \E stored \in MatchedRows(NODE_ENTITY_NAME) :
           \E r \in RowOf(NODE_ENTITY_NAME, stored) : r.extras # stored.extras

(***************************************************************************)
(* C35: the memberships of the archive's groups.                           *)
(***************************************************************************)
\* the group-membership records of the archive that name a member
MembershipRecords == {rec \in Range(archive.group_uuids) : rec[2] # {}}

\* C35: after a successful run, for every group-membership record of the
\* archive with a non-empty member set, the storage holds one group of the
\* record's identifier, and every member of the record is a stored node
\* whose id is among the members of that group; and every membership the
\* storage held at the start of the run is still there.
C35_GroupMembership ==
    Succeeded =>
        /\ \A rec \in MembershipRecords :
               LET found == {g \in db.Group : g.uuid = rec[1]}
               IN /\ Cardinality(found) = 1
                  /\ \A g \in found :
                         \A node_uuid \in rec[2] :
                             \E n \in db.Node :
                                 n.uuid = node_uuid /\ n.id \in Members(db, g.id)
        /\ \A g \in pre.Group : Members(pre, g.id) \subseteq Members(db, g.id)

====
